---- MODULE Spec2Model ----
(***************************************************************************)
(* Model of the Irrigation Decision & Cost-Efficiency Engine of            *)
(* PHIBRA_WATER_MAX.py.                                                    *)
(*                                                                         *)
(* Numbers.  Depths, rainfall amounts and NDVI values are floats in the    *)
(* source; here they are integers in hundredths (0.3 in is 30, an NDVI of  *)
(* 0.5 is 50).  Costs per acre-inch are whole dollars, so a total cost is  *)
(* in hundredths of a dollar (3.0 USD is 300).  The water-balance step     *)
(* divides millimetres by 25.4; its lengths are kept in units of 1/25400   *)
(* inch, in which both a millimetre (1000 units) and a hundredth of an     *)
(* inch (254 units) are whole numbers.                                     *)
(*                                                                         *)
(* An absent value (Python None) is the empty sequence, a present value v  *)
(* is <<v>>.                                                               *)
(***************************************************************************)
EXTENDS Integers, Sequences, FiniteSets, TLC

VARIABLES ri, fc, t3, hy, pa, gr, pl, rng, th, ef

vars == <<ri, fc, t3, hy, pa, gr, pl, rng, th, ef>>

None == <<>>

Some(v) == <<v>>

\* Python's max(a, b): a, unless b is greater.
Max(a, b) == IF b > a THEN b ELSE a

\* dict.get(key, default)
Get(d, key, default) == IF key \in DOMAIN d THEN d[key] ELSE default

\* Mutant of Lower: the name is used as it is written.
LowerIdentity(s) == s

(***************************************************************************)
(* Crop stage names.  str.lower() is modelled on the names the model       *)
(* draws: the dropdown's capitalised values, lower-case names, an          *)
(* upper-case name and a name that is no stage.                            *)
(***************************************************************************)
Lower(s) ==
    CASE s = "Germination" -> "germination"
      [] s = "Vegetative"  -> "vegetative"
      [] s = "Flowering"   -> "flowering"
      [] s = "FLOWERING"   -> "flowering"
      [] s = "Maturation"  -> "maturation"
      [] OTHER             -> s

(***************************************************************************)
(* recommend_irrigation                                                    *)
(***************************************************************************)
crop_water_requirements ==
    [germination |-> 20, vegetative |-> 30, flowering |-> 40, maturation |-> 20]

ndvi_thresholds ==
    [germination |-> 30, vegetative |-> 50, flowering |-> 50, maturation |-> 30]

\* Inputs the model draws for recommend_irrigation.
SoilMoistures == {25, 29, 30, 35}
RiStages == {"germination", "vegetative", "flowering", "maturation", "FLOWERING", "dormant"}
QpfValues == {0, 20, 21, 50}
NdviValues == {None, Some(20), Some(30), Some(49), Some(50), Some(60)}
CostsPerAcreInch == {0, 10}

RiIdle ==
    [pc |-> "idle", soil_moisture |-> 0, crop_stage |-> "", rain_forecast |-> FALSE,
     qpf |-> 0, ndvi |-> None, cost_per_acre_inch |-> 0,
     irrigation_needed |-> FALSE, water_in_inches |-> 0, total_cost |-> 0]

\* Mutant of Rule1: the comparison with 30 is not strict.
Rule1NotStrict(s) ==
    IF s.soil_moisture <= 30 /\ ~s.rain_forecast
    THEN [s EXCEPT !.irrigation_needed = TRUE,
                   !.water_in_inches = Get(crop_water_requirements, Lower(s.crop_stage), 30)]
    ELSE s

\* Mutant of Rule1: the test of the rain forecast has lost its "not".
Rule1NoNot(s) ==
    IF s.soil_moisture < 30 /\ s.rain_forecast
    THEN [s EXCEPT !.irrigation_needed = TRUE,
                   !.water_in_inches = Get(crop_water_requirements, Lower(s.crop_stage), 30)]
    ELSE s

\* if soil_moisture < 30 and not rain_forecast
Rule1(s) ==
    IF s.soil_moisture < 30 /\ ~s.rain_forecast
    THEN [s EXCEPT !.irrigation_needed = TRUE,
                   !.water_in_inches = Get(crop_water_requirements, Lower(s.crop_stage), 30)]
    ELSE s

\* Mutant of Rule2: the rain forecast is not tested.
Rule2NoRainTest(s) ==
    IF s.qpf > 20
    THEN [s EXCEPT !.irrigation_needed = FALSE]
    ELSE s

\* if rain_forecast and qpf > 0.2
Rule2(s) ==
    IF s.rain_forecast /\ s.qpf > 20
    THEN [s EXCEPT !.irrigation_needed = FALSE]
    ELSE s

\* Mutant of Rule3: the comparison with the threshold is not strict.
Rule3NotStrict(s) ==
    IF s.ndvi # None /\ s.ndvi[1] <= Get(ndvi_thresholds, Lower(s.crop_stage), 50)
    THEN [s EXCEPT !.irrigation_needed = TRUE,
                   !.water_in_inches =
                       Max(s.water_in_inches,
                           Get(crop_water_requirements, Lower(s.crop_stage), 30))]
    ELSE s

\* Mutant of Rule3: the depth is left as rules 1 and 2 set it.
Rule3KeepsDepth(s) ==
    IF s.ndvi # None /\ s.ndvi[1] < Get(ndvi_thresholds, Lower(s.crop_stage), 50)
    THEN [s EXCEPT !.irrigation_needed = TRUE]
    ELSE s

\* if ndvi is not None and ndvi < ndvi_thresholds.get(crop_stage.lower(), 0.5)
Rule3(s) ==
    IF s.ndvi # None /\ s.ndvi[1] < Get(ndvi_thresholds, Lower(s.crop_stage), 50)
    THEN [s EXCEPT !.irrigation_needed = TRUE,
                   !.water_in_inches =
                       Max(s.water_in_inches,
                           Get(crop_water_requirements, Lower(s.crop_stage), 30))]
    ELSE s

\* Mutant of TotalCost: the depth is converted with acre_inch_conversion
\* (102790.4) first.
TotalCostInGallons(s) ==
    [s EXCEPT !.total_cost = (s.water_in_inches * 1027904 * s.cost_per_acre_inch) \div 10]

\* total_cost = water_in_inches * cost_per_acre_inch
TotalCost(s) == [s EXCEPT !.total_cost = s.water_in_inches * s.cost_per_acre_inch]

\* Entry: the arguments are bound and the two locals initialised.
RiCall ==
    /\ ri.pc = "idle"
    /\ \E m \in SoilMoistures, st \in RiStages, rf \in BOOLEAN, q \in QpfValues,
          n \in NdviValues, c \in CostsPerAcreInch :
         ri' = [pc |-> "rule1", soil_moisture |-> m, crop_stage |-> st,
                rain_forecast |-> rf, qpf |-> q, ndvi |-> n, cost_per_acre_inch |-> c,
                irrigation_needed |-> FALSE, water_in_inches |-> 0, total_cost |-> 0]
    /\ UNCHANGED <<fc, t3, hy, pa, gr, pl, rng, th, ef>>

RiRule1 ==
    /\ ri.pc = "rule1"
    /\ ri' = [Rule1(ri) EXCEPT !.pc = "rule2"]
    /\ UNCHANGED <<fc, t3, hy, pa, gr, pl, rng, th, ef>>

RiRule2 ==
    /\ ri.pc = "rule2"
    /\ ri' = [Rule2(ri) EXCEPT !.pc = "rule3"]
    /\ UNCHANGED <<fc, t3, hy, pa, gr, pl, rng, th, ef>>

RiRule3 ==
    /\ ri.pc = "rule3"
    /\ ri' = [Rule3(ri) EXCEPT !.pc = "cost"]
    /\ UNCHANGED <<fc, t3, hy, pa, gr, pl, rng, th, ef>>

RiReturn ==
    /\ ri.pc = "cost"
    /\ ri' = [TotalCost(ri) EXCEPT !.pc = "done"]
    /\ UNCHANGED <<fc, t3, hy, pa, gr, pl, rng, th, ef>>

(***************************************************************************)
(* Forecast client.  A response of the weather service is a record:        *)
(*   error        requests.get raised (no connection, timeout, ...)        *)
(*   status_code  the HTTP status                                          *)
(*   is_json      response.json() can decode the body                      *)
(*   body         what the decoded JSON holds                              *)
(* A Python call ends by returning a value or by raising.                  *)
(***************************************************************************)
Returned(v) == [raised |-> FALSE, value |-> v]

Raised == [raised |-> TRUE, value |-> None]

\* pandas.DataFrame(list of dicts): no dict gives a frame without columns.
DataFrame(columns, rows) ==
    IF rows = <<>> THEN [columns |-> {}, rows |-> <<>>]
    ELSE [columns |-> columns, rows |-> rows]

\* pandas.DataFrame()
EmptyFrame == [columns |-> {}, rows |-> <<>>]

\* DataFrame.empty: some axis has length 0.
IsEmpty(df) == df.columns = {} \/ df.rows = <<>>

MaxPeriods == 2

StatusCodes == {200, 404, 503}

PointKeys == {"gridX", "gridY", "gridId", "forecast", "forecastGridData"}

SeqsUpTo(S, n) == UNION {[1..k -> S] : k \in 0..n}

NoBody == [has_properties |-> FALSE, keys |-> {}, items |-> <<>>]

\* Responses to GET /points/{lat},{lon}
PointsResponses ==
    {[error |-> TRUE, status_code |-> 0, is_json |-> FALSE, body |-> NoBody]}
    \cup {[error |-> FALSE, status_code |-> c, is_json |-> FALSE, body |-> NoBody] :
             c \in StatusCodes}
    \cup {[error |-> FALSE, status_code |-> 200, is_json |-> TRUE,
           body |-> [has_properties |-> h, keys |-> k, items |-> <<>>]] :
             h \in BOOLEAN, k \in SUBSET PointKeys}

ForecastTexts == {"Rain likely", "Chance of RAIN", "Sunny"}

\* One period of properties.periods: complete = it has startTime, temperature
\* and detailedForecast.
PeriodItems ==
    {[complete |-> TRUE, detailedForecast |-> t] : t \in ForecastTexts}
    \cup {[complete |-> FALSE, detailedForecast |-> ""]}

\* Responses to GET /gridpoints/{office}/{gridX},{gridY}/forecast;
\* keys = {"periods"} when properties.periods is there.
ForecastResponses ==
    {[error |-> TRUE, status_code |-> 0, is_json |-> FALSE, body |-> NoBody]}
    \cup {[error |-> FALSE, status_code |-> c, is_json |-> FALSE, body |-> NoBody] :
             c \in StatusCodes}
    \cup {[error |-> FALSE, status_code |-> 200, is_json |-> TRUE,
           body |-> [has_properties |-> TRUE, keys |-> {}, items |-> <<>>]]}
    \cup {[error |-> FALSE, status_code |-> 200, is_json |-> TRUE,
           body |-> [has_properties |-> TRUE, keys |-> {"periods"}, items |-> p]] :
             p \in SeqsUpTo(PeriodItems, MaxPeriods)}

QpfAmounts == {None, Some(0), Some(30)}

\* One sample of quantitativePrecipitation.values: complete = it has validTime
\* and value; the value may be null.
QpfItems ==
    {[complete |-> TRUE, value |-> v] : v \in QpfAmounts}
    \cup {[complete |-> FALSE, value |-> None]}

\* Responses to GET {forecastGridData};
\* keys = {"quantitativePrecipitation"} when its values are there.
GridDataResponses ==
    {[error |-> TRUE, status_code |-> 0, is_json |-> FALSE, body |-> NoBody]}
    \cup {[error |-> FALSE, status_code |-> c, is_json |-> FALSE, body |-> NoBody] :
             c \in StatusCodes}
    \cup {[error |-> FALSE, status_code |-> 200, is_json |-> TRUE,
           body |-> [has_properties |-> TRUE, keys |-> {}, items |-> <<>>]]}
    \cup {[error |-> FALSE, status_code |-> 200, is_json |-> TRUE,
           body |-> [has_properties |-> TRUE, keys |-> {"quantitativePrecipitation"},
                     items |-> p]] :
             p \in SeqsUpTo(QpfItems, MaxPeriods)}

\* str.lower() on the forecast texts the model draws
LowerText(t) ==
    CASE t = "Rain likely"    -> "rain likely"
      [] t = "Chance of RAIN" -> "chance of rain"
      [] OTHER                -> "sunny"

\* 'rain' in text
ContainsRain(t) == t \in {"rain likely", "chance of rain"}

NoGridpoint == <<None, None, None, None, None>>

TheGridpoint ==
    <<Some("gridX"), Some("gridY"), Some("office"), Some("forecast_url"),
      Some("forecast_grid_url")>>

\* The try block of get_gridpoint_by_coords.
GridpointTry(r) ==
    IF r.error THEN Raised
    ELSE IF r.status_code = 200
         THEN IF ~r.is_json THEN Raised
              ELSE IF ~r.body.has_properties \/ ~(PointKeys \subseteq r.body.keys)
                   THEN Raised
                   ELSE Returned(TheGridpoint)
         ELSE Returned(NoGridpoint)

\* Mutant of get_gridpoint_by_coords: no except clause.
get_gridpoint_by_coords_NoExcept(r) == GridpointTry(r)

get_gridpoint_by_coords(r) ==
    IF GridpointTry(r).raised THEN Returned(NoGridpoint) ELSE GridpointTry(r)

\* The try block of get_forecast_grid_data.
GridDataTry(r) ==
    IF r.error THEN Raised
    ELSE IF r.status_code = 200
         THEN IF ~r.is_json THEN Raised
              ELSE IF ~r.body.has_properties
                      \/ "quantitativePrecipitation" \notin r.body.keys
                   THEN Raised
                   ELSE IF \E i \in DOMAIN r.body.items : ~r.body.items[i].complete
                        THEN Raised
                        ELSE Returned(Some(DataFrame({"datetime", "qpf"},
                                 [i \in DOMAIN r.body.items |->
                                     [qpf |-> r.body.items[i].value]])))
         ELSE Returned(None)

get_forecast_grid_data(r) ==
    IF GridDataTry(r).raised THEN Returned(None) ELSE GridDataTry(r)

\* The try block of get_forecast_by_gridpoint.
ForecastTry(r) ==
    IF r.error THEN Raised
    ELSE IF r.status_code = 200
         THEN IF ~r.is_json THEN Raised
              ELSE IF ~r.body.has_properties \/ "periods" \notin r.body.keys
                   THEN Raised
                   ELSE IF \E i \in DOMAIN r.body.items : ~r.body.items[i].complete
                        THEN Raised
                        ELSE Returned(Some(DataFrame(
                                 {"datetime", "temperature", "rain_forecast",
                                  "detailed_forecast"},
                                 [i \in DOMAIN r.body.items |->
                                     [rain_forecast |->
                                        ContainsRain(LowerText(
                                            r.body.items[i].detailedForecast))]])))
         ELSE Returned(None)

get_forecast_by_gridpoint(r) ==
    IF ForecastTry(r).raised THEN Returned(None) ELSE ForecastTry(r)

FcIdle == [pc |-> "idle", op |-> "", resp |-> None, out |-> Returned(None)]

FcGetGridpoint ==
    /\ fc.pc = "idle"
    /\ \E r \in PointsResponses :
         fc' = [pc |-> "done", op |-> "get_gridpoint_by_coords", resp |-> r,
                out |-> get_gridpoint_by_coords(r)]
    /\ UNCHANGED <<ri, t3, hy, pa, gr, pl, rng, th, ef>>

FcGetForecast ==
    /\ fc.pc = "idle"
    /\ \E r \in ForecastResponses :
         fc' = [pc |-> "done", op |-> "get_forecast_by_gridpoint", resp |-> r,
                out |-> get_forecast_by_gridpoint(r)]
    /\ UNCHANGED <<ri, t3, hy, pa, gr, pl, rng, th, ef>>

FcGetGridData ==
    /\ fc.pc = "idle"
    /\ \E r \in GridDataResponses :
         fc' = [pc |-> "done", op |-> "get_forecast_grid_data", resp |-> r,
                out |-> get_forecast_grid_data(r)]
    /\ UNCHANGED <<ri, t3, hy, pa, gr, pl, rng, th, ef>>

(***************************************************************************)
(* parse_contents.  An upload is a record:                                 *)
(*   commas    the number of commas in the contents string                 *)
(*   b64_ok    base64.b64decode accepts the part after the comma           *)
(*   filename  the name of the file                                        *)
(*   format    what the decoded bytes are: "csv" (UTF-8 delimited text),   *)
(*             "excel" (a workbook), "malformed" (UTF-8 text that is no    *)
(*             table: empty, or with ragged rows) or "binary" (neither)    *)
(*   table     the table the bytes hold, when a reader can read them       *)
(* A table is a record of its column names and its rows.                   *)
(***************************************************************************)
FileNames ==
    {"data.csv", "DATA.CSV", "data.xlsx", "data.xls", "data.txt", "csv_notes.txt",
     "csv.xlsx"}

\* filename.lower()
LowerName(f) == IF f = "DATA.CSV" THEN "data.csv" ELSE f

\* 'csv' in name
ContainsCsv(name) == name \in {"data.csv", "csv_notes.txt", "csv.xlsx"}

\* 'xls' in name or 'xlsx' in name
ContainsXls(name) == name \in {"data.xlsx", "data.xls", "csv.xlsx"}

parse_contents(u) ==
    IF u.commas # 1 THEN Raised
    ELSE IF ~u.b64_ok THEN Raised
    ELSE IF ContainsCsv(LowerName(u.filename))
         THEN IF u.format = "csv" THEN Returned(Some(u.table)) ELSE Returned(None)
         ELSE IF ContainsXls(LowerName(u.filename))
              THEN IF u.format = "excel" THEN Returned(Some(u.table)) ELSE Returned(None)
              ELSE Returned(None)

NoTable == [columns |-> {}, rows |-> <<>>]

\* The uploads a callback is tried with: none, a contents string without a
\* comma, one whose base64 part is truncated, a file of an unsupported type, a
\* .csv file that is not text, and a .csv file holding each of the tables.
UploadsOf(tables) ==
    {None,
     Some([commas |-> 0, b64_ok |-> TRUE, filename |-> "data.csv", format |-> "csv",
           table |-> NoTable]),
     Some([commas |-> 1, b64_ok |-> FALSE, filename |-> "data.csv", format |-> "csv",
           table |-> NoTable]),
     Some([commas |-> 1, b64_ok |-> TRUE, filename |-> "data.txt", format |-> "csv",
           table |-> NoTable]),
     Some([commas |-> 1, b64_ok |-> TRUE, filename |-> "data.csv", format |-> "binary",
           table |-> NoTable])}
    \cup {Some([commas |-> 1, b64_ok |-> TRUE, filename |-> "data.csv", format |-> "csv",
                table |-> t]) : t \in tables}

\* The table of a readable file in the calls of parse_contents on its own.
ParsedTable == [columns |-> {"FarmID", "Total"}, rows |-> <<>>]

\* Every contents string and file name parse_contents is called with.
ParseUploads ==
    {[commas |-> c, b64_ok |-> b, filename |-> f, format |-> fmt, table |-> ParsedTable] :
        c \in {0, 1, 2}, b \in BOOLEAN, f \in FileNames,
        fmt \in {"csv", "excel", "malformed", "binary"}}

PaIdle == [pc |-> "idle", upload |-> None, result |-> Returned(None)]

\* A call parse_contents(contents, filename).
PaCall ==
    /\ pa.pc = "idle"
    /\ \E u \in ParseUploads : pa' = [pa EXCEPT !.pc = "called", !.upload = Some(u)]
    /\ UNCHANGED <<ri, fc, t3, hy, gr, pl, rng, th, ef>>

\* Lines 197-210: the call returns or raises.
PaReturn ==
    /\ pa.pc = "called"
    /\ pa' = [pa EXCEPT !.pc = "done", !.result = parse_contents(pa.upload[1])]
    /\ UNCHANGED <<ri, fc, t3, hy, gr, pl, rng, th, ef>>

(***************************************************************************)
(* update_tab3_output.  Lengths of the water-balance step are in units of  *)
(* 1/25400 inch: x mm / 25.4 is x * 1000 units, 0.01 inch is 254 units.    *)
(***************************************************************************)
MaxSensorRows == 2

\* [col for col in required_columns if col not in df.columns]
MissingColumns(required_columns, columns) ==
    SelectSeq(required_columns, LAMBDA col : col \notin columns)

\* ', '.join(names)
JoinNames(names) ==
    LET j[k \in 0..Len(names)] ==
            IF k = 0 THEN ""
            ELSE IF k = 1 THEN names[1]
            ELSE j[k - 1] \o ", " \o names[k]
    IN  j[Len(names)]


\* The number of forecast days (7 in the source, line 1302).
SimulatedDays == 2

SensorColumns == {"Sensor_ID", "Date", "Depth", "Moisture_Level"}

\* required_columns of line 1230, in the order of the list
SensorRequiredColumns == <<"Sensor_ID", "Date", "Depth", "Moisture_Level">>

\* A sensor row: its date, None when pd.to_datetime cannot parse it, and its
\* moisture level in mm.
SensorRows ==
    {[Date |-> None, Moisture_Level |-> 10], [Date |-> Some(1), Moisture_Level |-> 10],
     [Date |-> Some(2), Moisture_Level |-> 10], [Date |-> Some(2), Moisture_Level |-> 50]}

SensorTables ==
    {[columns |-> c, rows |-> <<>>] : c \in (SUBSET SensorColumns) \ {SensorColumns}}
    \cup {[columns |-> SensorColumns, rows |-> r] : r \in SeqsUpTo(SensorRows, MaxSensorRows)}
    \cup {[columns |-> SensorColumns \cup {"Sensor_Type"},
           rows |-> <<[Date |-> Some(2), Moisture_Level |-> 50]>>]}

\* The simulated sensor history (np.random.uniform(10, 50)): one date here.
SimulatedMoisture ==
    {[columns |-> SensorColumns \cup {"Sensor_Type"},
      rows |-> <<[Date |-> Some(2), Moisture_Level |-> l]>>] : l \in {10, 30, 50}}

HybridTables ==
    {[columns |-> c, rows |-> <<>>] : c \in SUBSET {"Sensor_ID", "CompanyHybrid"}}

GrowthStages == {Some("Vegetative"), Some("germination"), Some("FLOWERING"),
                 Some("dormant"), None}

Coordinates == {<<Some(41), Some(-93)>>, <<None, Some(-93)>>, <<Some(41), None>>}

\* Daily rainfall of the simulated forecast (np.random.uniform(0, 20) mm / 25.4).
SimulatedRainfall == {0, 10000}

\* soil capacity per stage, in hundredths of an inch
growth_stages ==
    [germination |-> 118, vegetative |-> 157, flowering |-> 197, maturation |-> 138]

\* The five outputs of an early return: a message and four empty values.
ErrorOutputs(message) ==
    [upload_status |-> message, fig_wue |-> "empty", fig_moisture |-> "empty",
     moisture_table |-> "empty", fig_forecast |-> "empty"]

NoOutputs == ErrorOutputs("")

T3Idle ==
    [pc |-> "idle", sensor |-> None, hybrid |-> None, n_clicks |-> 0,
     growth_stage |-> None, latitude |-> None, longitude |-> None,
     moisture_df |-> NoTable, upload_status |-> "", gridpoint |-> NoGridpoint,
     forecast_df |-> EmptyFrame, forecast_fetched |-> FALSE, qpf_df |-> None,
     rain_forecast |-> FALSE, qpf |-> Some(0), requests |-> <<>>, average_soil_moisture |-> 0, total_forecasted_rain |-> 0,
     irrigation_threshold |-> 0, out |-> NoOutputs]

\* Invocation: the callback's arguments.
T3Call ==
    /\ t3.pc = "idle"
    /\ \E su \in UploadsOf(SensorTables), hu \in UploadsOf(HybridTables),
          n \in {0, 1}, st \in GrowthStages, c \in Coordinates :
         t3' = [T3Idle EXCEPT !.pc = "sensor", !.sensor = su, !.hybrid = hu,
                              !.n_clicks = n, !.growth_stage = st,
                              !.latitude = c[1], !.longitude = c[2]]
    /\ UNCHANGED <<ri, fc, hy, pa, gr, pl, rng, th, ef>>

Return(s, outputs) == [s EXCEPT !.pc = "returned", !.out = outputs]

Raise(s) == [s EXCEPT !.pc = "raised"]

\* Lines 1226-1257: the sensor upload, or the simulated sensor history.
T3Sensor ==
    /\ t3.pc = "sensor"
    /\ IF t3.sensor # None
       THEN LET p == parse_contents(t3.sensor[1]) IN
            IF p.raised THEN t3' = Raise(t3)
            ELSE IF p.value = None
            THEN t3' = Return(t3, ErrorOutputs("Error: Could not parse sensor data file."))
            ELSE LET df == p.value[1] IN
                 IF SensorColumns \ df.columns # {}
                 THEN t3' = Return(t3, ErrorOutputs(
                              "Error: Missing columns in sensor data: "
                              \o JoinNames(MissingColumns(SensorRequiredColumns, df.columns))))
                 ELSE IF \E i \in DOMAIN df.rows : df.rows[i].Date = None
                 THEN t3' = Return(t3, ErrorOutputs("Error: Invalid date format in sensor data."))
                 ELSE t3' = [t3 EXCEPT !.pc = "hybrid",
                                       !.moisture_df =
                                           [df EXCEPT !.columns = @ \cup {"Sensor_Type"}],
                                       !.upload_status = "Sensor data uploaded successfully!"]
       ELSE \E df \in SimulatedMoisture :
              t3' = [t3 EXCEPT !.pc = "hybrid", !.moisture_df = df,
                               !.upload_status = "Using simulated sensor data."]
    /\ UNCHANGED <<ri, fc, hy, pa, gr, pl, rng, th, ef>>

\* Lines 1259-1271: the hybrid upload.
T3Hybrid ==
    /\ t3.pc = "hybrid"
    /\ IF t3.hybrid # None
       THEN LET p == parse_contents(t3.hybrid[1]) IN
            IF p.raised THEN t3' = Raise(t3)
            ELSE IF p.value = None
            THEN t3' = Return(t3, ErrorOutputs("Error: Could not parse hybrid data file."))
            ELSE IF {"Sensor_ID", "CompanyHybrid"} \ p.value[1].columns # {}
            THEN t3' = Return(t3, ErrorOutputs(
                         "Error: Missing 'Sensor_ID' or 'CompanyHybrid' columns in hybrid data."))
            ELSE t3' = [t3 EXCEPT !.pc = "weather",
                                  !.upload_status = "Hybrid data uploaded successfully!"]
       ELSE t3' = [t3 EXCEPT !.pc = "weather"]
    /\ UNCHANGED <<ri, fc, hy, pa, gr, pl, rng, th, ef>>

\* The fallback of lines 1290-1300: no forecast.
NoForecast(s) ==
    [s EXCEPT !.pc = "balance", !.forecast_df = EmptyFrame, !.rain_forecast = FALSE,
              !.qpf = Some(0)]

\* column.mean(): the mean of the values that are not null, NaN (None here)
\* when there is none.
Mean(values) ==
    LET present == {i \in DOMAIN values : values[i] # None}
        sum[k \in 0..Len(values)] ==
            IF k = 0 THEN 0
            ELSE sum[k - 1] + (IF values[k] # None THEN values[k][1] ELSE 0)
    IN  IF present = {} THEN None ELSE Some(sum[Len(values)] \div Cardinality(present))

\* Mutant of T3Weather: the test of n_clicks is missing.
T3WeatherIgnoresClicks ==
    /\ t3.pc = "weather"
    /\ IF t3.latitude # None /\ t3.longitude # None
       THEN t3' = [t3 EXCEPT !.pc = "points"]
       ELSE t3' = NoForecast(t3)
    /\ UNCHANGED <<ri, fc, hy, pa, gr, pl, rng, th, ef>>

\* Lines 1274-1275 and 1297-1311: the branch on n_clicks and the coordinates;
\* without a click the forecast is simulated.
T3Weather ==
    /\ t3.pc = "weather"
    /\ IF t3.n_clicks > 0
       THEN IF t3.latitude # None /\ t3.longitude # None
            THEN t3' = [t3 EXCEPT !.pc = "points"]
            ELSE t3' = NoForecast(t3)
       ELSE \E rain \in [1..SimulatedDays -> SimulatedRainfall] :
              t3' = [t3 EXCEPT
                       !.pc = "balance",
                       !.forecast_df =
                           [columns |-> {"Date", "Rainfall_Forecast",
                                         "Probability_of_Precipitation"},
                            rows |-> [i \in 1..SimulatedDays |->
                                         [Rainfall_Forecast |-> rain[i]]]],
                       !.rain_forecast = (\E i \in 1..SimulatedDays : rain[i] > 0),
                       !.qpf = Mean([i \in 1..SimulatedDays |-> Some(rain[i])])]
    /\ UNCHANGED <<ri, fc, hy, pa, gr, pl, rng, th, ef>>

\* Lines 1278-1279 and 1293-1296: the points lookup.
T3Points ==
    /\ t3.pc = "points"
    /\ \E r \in PointsResponses :
         LET g == get_gridpoint_by_coords(r) IN
         IF g.raised THEN t3' = Raise([t3 EXCEPT !.requests = Append(@, "points")])
         ELSE IF g.value[1] # None /\ g.value[2] # None /\ g.value[3] # None
         THEN t3' = [t3 EXCEPT !.pc = "forecast", !.gridpoint = g.value,
                               !.requests = Append(@, "points")]
         ELSE t3' = [NoForecast(t3) EXCEPT !.gridpoint = g.value,
                                           !.requests = Append(@, "points")]
    /\ UNCHANGED <<ri, fc, hy, pa, gr, pl, rng, th, ef>>

\* Lines 1280-1281 and 1289-1292: the period forecast; forecast_fetched is
\* "forecast_df is not None" of line 1281.
T3Forecast ==
    /\ t3.pc = "forecast"
    /\ \E r \in ForecastResponses :
         LET f == get_forecast_by_gridpoint(r) IN
         IF f.raised THEN t3' = Raise([t3 EXCEPT !.requests = Append(@, "forecast")])
         ELSE IF f.value # None
         THEN t3' = [t3 EXCEPT !.pc = "griddata", !.forecast_df = f.value[1],
                               !.forecast_fetched = TRUE,
                               !.requests = Append(@, "forecast")]
         ELSE t3' = [NoForecast(t3) EXCEPT !.requests = Append(@, "forecast")]
    /\ UNCHANGED <<ri, fc, hy, pa, gr, pl, rng, th, ef>>

\* Lines 1282-1288: the precipitation grid; forecast_df stays the fetched frame.
T3GridData ==
    /\ t3.pc = "griddata"
    /\ \E r \in GridDataResponses :
         LET q == get_forecast_grid_data(r)
             s == [t3 EXCEPT !.requests = Append(@, "griddata"), !.qpf_df = q.value]
         IN
         IF q.raised THEN t3' = Raise(s)
         ELSE IF q.value # None
         THEN IF "rain_forecast" \notin s.forecast_df.columns
                 \/ "qpf" \notin q.value[1].columns
              THEN t3' = Raise(s)
              ELSE t3' = [s EXCEPT
                            !.pc = "balance",
                            !.rain_forecast =
                                (\E i \in DOMAIN s.forecast_df.rows :
                                    s.forecast_df.rows[i].rain_forecast),
                            !.qpf = Mean([i \in DOMAIN q.value[1].rows |->
                                             q.value[1].rows[i].qpf])]
         ELSE t3' = [s EXCEPT !.pc = "balance", !.rain_forecast = FALSE,
                              !.qpf = Some(0)]
    /\ UNCHANGED <<ri, fc, hy, pa, gr, pl, rng, th, ef>>

\* Mutant of CumSum: each day carries its own rainfall only.
CumSumDaily(rows) ==
    [i \in DOMAIN rows |-> rows[i].Rainfall_Forecast]

\* Series.cumsum()
CumSum(rows) ==
    LET c[k \in 0..Len(rows)] ==
            IF k = 0 THEN 0 ELSE c[k - 1] + rows[k].Rainfall_Forecast
    IN  [i \in DOMAIN rows |-> c[i]]

\* Series.sum()
Sum(rows) == IF rows = <<>> THEN 0 ELSE CumSum(rows)[Len(rows)]

\* Lines 1437-1438: the soil capacity of the stage, in units.
SoilCapacity(growth_stage) ==
    LET current_stage == IF growth_stage # None THEN Lower(growth_stage[1])
                         ELSE "vegetative"
    IN  Get(growth_stages, current_stage, 79) * 254

\* Mutant of AverageSoilMoisture: an empty history counts as 25.4 mm.
AverageSoilMoistureOneInch(moisture_df) ==
    IF ~IsEmpty(moisture_df)
    THEN LET latest == CHOOSE d \in {moisture_df.rows[i].Date[1] : i \in DOMAIN moisture_df.rows} :
                          \A i \in DOMAIN moisture_df.rows : moisture_df.rows[i].Date[1] <= d
             recent == SelectSeq(moisture_df.rows, LAMBDA r : r.Date[1] = latest)
         IN  Mean([i \in DOMAIN recent |-> Some(recent[i].Moisture_Level * 1000)])[1]
    ELSE 25400

\* Lines 1440-1445: the mean moisture level of the latest date, mm / 25.4.
AverageSoilMoisture(moisture_df) ==
    IF ~IsEmpty(moisture_df)
    THEN LET latest == CHOOSE d \in {moisture_df.rows[i].Date[1] : i \in DOMAIN moisture_df.rows} :
                          \A i \in DOMAIN moisture_df.rows : moisture_df.rows[i].Date[1] <= d
             recent == SelectSeq(moisture_df.rows, LAMBDA r : r.Date[1] = latest)
         IN  Mean([i \in DOMAIN recent |-> Some(recent[i].Moisture_Level * 1000)])[1]
    ELSE 0

\* Mutant of IrrigationThreshold: the clamp at 0 is missing.
IrrigationThresholdNoClamp(current_soil_capacity, total_available_water) ==
    current_soil_capacity - total_available_water

\* Lines 1450-1451
IrrigationThreshold(current_soil_capacity, total_available_water) ==
    Max(current_soil_capacity - total_available_water, 0)

\* Lines 1313-1524: the metrics, the charts and the water balance.  A forecast
\* frame that is not empty must have the column Rainfall_Forecast (line 1420).
T3WaterBalance ==
    /\ t3.pc = "balance"
    /\ IF ~IsEmpty(t3.forecast_df) /\ "Rainfall_Forecast" \notin t3.forecast_df.columns
       THEN t3' = Raise(t3)
       ELSE LET rows == IF IsEmpty(t3.forecast_df) THEN <<>> ELSE t3.forecast_df.rows
                cumulative == CumSum(rows)
                average_soil_moisture == AverageSoilMoisture(t3.moisture_df)
                total_forecasted_rain == Sum(rows)
                total_available_water == average_soil_moisture + total_forecasted_rain
            IN  t3' = [t3 EXCEPT
                         !.pc = "returned",
                         !.forecast_df =
                             [columns |-> {"Date", "Rainfall_Forecast",
                                           "Probability_of_Precipitation",
                                           "Cumulative_Rainfall", "Total_Available_Water"},
                              rows |-> [i \in DOMAIN rows |->
                                  [Rainfall_Forecast |-> rows[i].Rainfall_Forecast,
                                   Cumulative_Rainfall |-> cumulative[i],
                                   Total_Available_Water |->
                                       average_soil_moisture + cumulative[i]]]],
                         !.average_soil_moisture = average_soil_moisture,
                         !.total_forecasted_rain = total_forecasted_rain,
                         !.irrigation_threshold =
                             IrrigationThreshold(SoilCapacity(t3.growth_stage),
                                                 total_available_water),
                         !.out = [upload_status |-> t3.upload_status,
                                  fig_wue |-> "chart", fig_moisture |-> "chart",
                                  moisture_table |-> "table", fig_forecast |-> "chart"]]
    /\ UNCHANGED <<ri, fc, hy, pa, gr, pl, rng, th, ef>>

(***************************************************************************)
(* update_total_cost_per_hybrid.  A planting row is its FarmID and its     *)
(* CompanyHybrid; a row of a cost table is its FarmID and its Total.       *)
(* Prices are whole dollars per unit.                                      *)
(***************************************************************************)
MaxPlantingRows == 2

MaxCostRows == 2

Farms == {"F1", "F2"}

Hybrids == {"H1", "H2"}

PlantingColumns == {"FarmID", "PlantingDate", "CompanyHybrid", "Seeding Rate(plants/ac)"}

PlantingTables ==
    {[columns |-> c, rows |-> <<>>] : c \in (SUBSET PlantingColumns) \ {PlantingColumns}}
    \cup {[columns |-> PlantingColumns, rows |-> r] :
             r \in SeqsUpTo([FarmID : Farms, CompanyHybrid : Hybrids], MaxPlantingRows)}

\* Cost tables with the totals drawn from `totals`: complete ones, one without
\* the Total column (a row of it is its FarmID) and one without the FarmID
\* column.
CostTables(totals) ==
    {[columns |-> {"FarmID", "2024-01-01"}, rows |-> <<[FarmID |-> "F1"]>>],
     [columns |-> {"Total", "2024-01-01"}, rows |-> <<>>]}
    \cup {[columns |-> {"FarmID", "2024-01-01", "Total"}, rows |-> r] :
             r \in SeqsUpTo([FarmID : Farms, Total : totals], MaxCostRows)}

IrrigationTotals == {3}

FertilizerTotals == {0, 5}

\* <<price_irrigation, price_fertilizer>>
PricePairs == {<<2, 3>>}

\* The dropdown's value: nothing, an empty list, or hybrids.
HybridSelections == {None, Some({}), Some({"H1"})}

\* go.Figure()
EmptyFigure == [kind |-> "empty figure", totals |-> <<>>]

\* The figure annotated "No data available to display."
NoDataFigure == [kind |-> "no data figure", totals |-> <<>>]

\* px.bar of the per-hybrid totals
BarChart(totals) == [kind |-> "bar chart", totals |-> totals]

HyIdle ==
    [pc |-> "idle", planting |-> None, irrigation |-> None, fertilizer |-> None,
     price_irrigation |-> 0, price_fertilizer |-> 0, selected_hybrids |-> None,
     planting_df |-> NoTable, total_cost_df |-> EmptyFrame, parsed |-> <<>>,
     out |-> EmptyFigure]

HyReturn(s, figure) == [s EXCEPT !.pc = "returned", !.out = figure]

HyRaise(s) == [s EXCEPT !.pc = "raised"]

\* Lines 1729-1747: the planting data.
HyPlanting(s) ==
    IF s.planting # None
    THEN LET p == parse_contents(s.planting[1])
             t == [s EXCEPT !.parsed = Append(@, "planting")]
         IN
         IF p.raised THEN HyRaise(t)
         ELSE IF p.value # None
         THEN IF PlantingColumns \ p.value[1].columns # {}
              THEN HyReturn(t, EmptyFigure)
              ELSE IF s.selected_hybrids # None /\ s.selected_hybrids[1] # {}
              THEN [t EXCEPT !.pc = "irrigation",
                             !.planting_df =
                                 [p.value[1] EXCEPT !.rows =
                                     SelectSeq(@, LAMBDA r :
                                         r.CompanyHybrid \in s.selected_hybrids[1])]]
              ELSE [t EXCEPT !.pc = "irrigation", !.planting_df = p.value[1]]
         ELSE HyReturn(t, EmptyFigure)
    ELSE HyReturn(s, EmptyFigure)

\* Lines 1749-1764: the irrigation data.
HyIrrigation(s) ==
    IF s.irrigation # None
    THEN LET p == parse_contents(s.irrigation[1])
             t == [s EXCEPT !.parsed = Append(@, "irrigation")]
         IN
         IF p.raised THEN HyRaise(t)
         ELSE IF p.value # None
         THEN IF {"FarmID", "Total"} \ p.value[1].columns # {}
              THEN HyReturn(t, EmptyFigure)
              ELSE [t EXCEPT
                      !.pc = "fertilizer",
                      !.total_cost_df =
                          [columns |-> {"FarmID", "Irrigation_Total", "Irrigation_Cost"},
                           rows |-> [i \in DOMAIN p.value[1].rows |->
                               [FarmID |-> p.value[1].rows[i].FarmID,
                                Irrigation_Total |-> p.value[1].rows[i].Total,
                                Irrigation_Cost |->
                                    p.value[1].rows[i].Total * s.price_irrigation]]]]
         ELSE HyReturn(t, EmptyFigure)
    ELSE [s EXCEPT !.pc = "fertilizer"]

\* Mutant of LeftMerge: a left row is paired with the first right row of its
\* farm only.
LeftMergeFirstMatch(left, right) ==
    [k \in DOMAIN left |->
        LET match == SelectSeq(right, LAMBDA r : r.FarmID = left[k].FarmID)
        IN  IF match = <<>> THEN <<left[k], None>> ELSE <<left[k], Some(match[1])>>]

\* left.merge(right, on='FarmID', how='left'): every left row, once per right
\* row of its farm (paired with Some(row)), or once with the right columns
\* missing (paired with None).
LeftMerge(left, right) ==
    LET m[k \in 0..Len(left)] ==
            IF k = 0 THEN <<>>
            ELSE LET match == SelectSeq(right, LAMBDA r : r.FarmID = left[k].FarmID)
                 IN  m[k - 1] \o (IF match = <<>> THEN << <<left[k], None>> >>
                                  ELSE [j \in DOMAIN match |-> <<left[k], Some(match[j])>>])
    IN  m[Len(left)]

\* Lines 1766-1785: the fertilizer data, merged into total_cost_df when that
\* is not empty; the NaN of a farm without fertilizer row becomes 0.
HyFertilizer(s) ==
    IF s.fertilizer # None
    THEN LET p == parse_contents(s.fertilizer[1])
             t == [s EXCEPT !.parsed = Append(@, "fertilizer")]
         IN
         IF p.raised THEN HyRaise(t)
         ELSE IF p.value # None
         THEN IF {"FarmID", "Total"} \ p.value[1].columns # {}
              THEN HyReturn(t, EmptyFigure)
              ELSE LET fertilizer_summary ==
                           [columns |-> {"FarmID", "Fertilizer_Total", "Fertilizer_Cost"},
                            rows |-> [i \in DOMAIN p.value[1].rows |->
                                [FarmID |-> p.value[1].rows[i].FarmID,
                                 Fertilizer_Total |-> p.value[1].rows[i].Total,
                                 Fertilizer_Cost |->
                                     p.value[1].rows[i].Total * s.price_fertilizer]]]
                   IN
                   IF ~IsEmpty(s.total_cost_df)
                   THEN [t EXCEPT
                           !.pc = "merge",
                           !.total_cost_df =
                               [columns |-> s.total_cost_df.columns
                                            \cup {"Fertilizer_Total", "Fertilizer_Cost"},
                                rows |-> LET pairs == LeftMerge(s.total_cost_df.rows,
                                                           fertilizer_summary.rows)
                                         IN  [i \in DOMAIN pairs |->
                                        [FarmID |-> pairs[i][1].FarmID,
                                         Irrigation_Total |-> pairs[i][1].Irrigation_Total,
                                         Irrigation_Cost |-> pairs[i][1].Irrigation_Cost,
                                         Fertilizer_Total |->
                                             IF pairs[i][2] = None THEN 0
                                             ELSE pairs[i][2][1].Fertilizer_Total,
                                         Fertilizer_Cost |->
                                             IF pairs[i][2] = None THEN 0
                                             ELSE pairs[i][2][1].Fertilizer_Cost]]]]
                   ELSE [t EXCEPT !.pc = "merge", !.total_cost_df = fertilizer_summary]
         ELSE HyReturn(t, EmptyFigure)
    ELSE [s EXCEPT !.pc = "merge"]

\* groupby('CompanyHybrid')['Total_Cost'].sum(): rows without hybrid (NaN) are
\* left out; the result maps each hybrid that occurs to its sum.
GroupByHybrid(rows) ==
    LET present == {rows[i].CompanyHybrid[1] :
                       i \in {j \in DOMAIN rows : rows[j].CompanyHybrid # None}}
        sum[h \in present, k \in 0..Len(rows)] ==
            IF k = 0 THEN 0
            ELSE sum[h, k - 1]
                 + (IF rows[k].CompanyHybrid = Some(h) THEN rows[k].Total_Cost ELSE 0)
    IN  [h \in present |-> sum[h, Len(rows)]]

\* Lines 1787-1831: the join to the planting data, the total per row, the sum
\* per hybrid and the figure.  The join needs the column FarmID, the total
\* needs both cost columns.
HyMerge(s) ==
    IF "FarmID" \notin s.total_cost_df.columns THEN HyRaise(s)
    ELSE IF {"Irrigation_Cost", "Fertilizer_Cost"} \ s.total_cost_df.columns # {}
    THEN HyRaise(s)
    ELSE LET merged ==
                 LET pairs == LeftMerge(s.total_cost_df.rows, s.planting_df.rows)
                 IN  [i \in DOMAIN pairs |->
                         [FarmID |-> pairs[i][1].FarmID,
                          Total_Cost |-> pairs[i][1].Irrigation_Cost
                                         + pairs[i][1].Fertilizer_Cost,
                          CompanyHybrid |->
                              IF pairs[i][2] = None THEN None
                              ELSE Some(pairs[i][2][1].CompanyHybrid)]]
             total_cost_per_hybrid == GroupByHybrid(merged)
         IN  IF DOMAIN total_cost_per_hybrid # {}
             THEN HyReturn(s, BarChart(total_cost_per_hybrid))
             ELSE HyReturn(s, NoDataFigure)

\* Invocation: the callback's arguments.
HyCall ==
    /\ hy.pc = "idle"
    /\ \E pu \in UploadsOf(PlantingTables), iu \in UploadsOf(CostTables(IrrigationTotals)),
          fu \in UploadsOf(CostTables(FertilizerTotals)), pr \in PricePairs,
          sel \in HybridSelections :
         hy' = [HyIdle EXCEPT !.pc = "planting", !.planting = pu, !.irrigation = iu,
                              !.fertilizer = fu, !.price_irrigation = pr[1],
                              !.price_fertilizer = pr[2], !.selected_hybrids = sel]
    /\ UNCHANGED <<ri, fc, t3, pa, gr, pl, rng, th, ef>>

HyPlantingStep ==
    /\ hy.pc = "planting"
    /\ hy' = HyPlanting(hy)
    /\ UNCHANGED <<ri, fc, t3, pa, gr, pl, rng, th, ef>>

HyIrrigationStep ==
    /\ hy.pc = "irrigation"
    /\ hy' = HyIrrigation(hy)
    /\ UNCHANGED <<ri, fc, t3, pa, gr, pl, rng, th, ef>>

HyFertilizerStep ==
    /\ hy.pc = "fertilizer"
    /\ hy' = HyFertilizer(hy)
    /\ UNCHANGED <<ri, fc, t3, pa, gr, pl, rng, th, ef>>

HyMergeStep ==
    /\ hy.pc = "merge"
    /\ hy' = HyMerge(hy)
    /\ UNCHANGED <<ri, fc, t3, pa, gr, pl, rng, th, ef>>

(***************************************************************************)
(* update_planting_data: the planting upload of the cost tab.              *)
(***************************************************************************)
\* required_columns of line 1541, in the order of the list
PlantingRequiredColumns ==
    <<"FarmID", "PlantingDate", "CompanyHybrid", "Seeding Rate(plants/ac)">>

\* Series.unique(): the values in the order of their first appearance.
Unique(values) ==
    LET u[k \in 0..Len(values)] ==
            IF k = 0 THEN <<>>
            ELSE IF \E i \in 1..(k - 1) : values[i] = values[k] THEN u[k - 1]
            ELSE Append(u[k - 1], values[k])
    IN  u[Len(values)]

\* The three outputs: the dropdown's options, its value (None or the list of
\* hybrids) and the status.
PlOutputs(options, value, upload_status) ==
    [options |-> options, value |-> value, upload_status |-> upload_status]

PlIdle == [pc |-> "idle", planting |-> None, out |-> PlOutputs(<<>>, None, "")]

\* Lines 1536-1552
update_planting_data(planting) ==
    IF planting # None
    THEN LET p == parse_contents(planting[1]) IN
         IF p.raised THEN Raised
         ELSE IF p.value # None
         THEN LET df == p.value[1]
                  missing_columns == MissingColumns(PlantingRequiredColumns, df.columns)
              IN  IF missing_columns # <<>>
                  THEN Returned(PlOutputs(<<>>, None,
                           "Error: Missing columns in planting data: "
                           \o JoinNames(missing_columns)))
                  ELSE LET hybrids == Unique([i \in DOMAIN df.rows |->
                                                 df.rows[i].CompanyHybrid])
                       IN  Returned(PlOutputs(hybrids, Some(hybrids),
                               "Planting data uploaded successfully!"))
         ELSE Returned(PlOutputs(<<>>, None, "Error: Could not parse planting data file."))
    ELSE Returned(PlOutputs(<<>>, None, ""))

\* Invocation: the callback's arguments.
PlCall ==
    /\ pl.pc = "idle"
    /\ \E u \in UploadsOf(PlantingTables) : pl' = [pl EXCEPT !.pc = "called", !.planting = u]
    /\ UNCHANGED <<ri, fc, t3, hy, pa, gr, rng, th, ef>>

PlReturn ==
    /\ pl.pc = "called"
    /\ LET r == update_planting_data(pl.planting) IN
       pl' = IF r.raised THEN [pl EXCEPT !.pc = "raised"]
             ELSE [pl EXCEPT !.pc = "returned", !.out = r.value]
    /\ UNCHANGED <<ri, fc, t3, hy, pa, gr, rng, th, ef>>

(***************************************************************************)
(* update_irrigation_graph and update_fertilizer_graph.  The two callbacks *)
(* are the same code with 'Irrigation' replaced by 'Fertilizer'; `kind`    *)
(* says which one runs.  A wide table has a header (its column names in    *)
(* order) and rows; a row is its FarmID and its cells, one per other       *)
(* column.  A cell is Some(number), or None when it is blank or not a      *)
(* number.  A long row is FarmID, Date, Amount (the column 'Irrigation' or *)
(* 'Fertilizer') and, after the last step, Cost ('Irrigation_Cost' or      *)
(* 'Fertilizer_Cost').  Dates are day numbers.                             *)
(***************************************************************************)
MaxWideRows == 2

WideHeaders ==
    {<<"FarmID", "2024-01-01", "2024-01-02">>,
     <<"FarmID", "2024-01-01", "Total">>,
     <<"FarmID", "Notes", "2024-01-02", "Total">>,
     <<"FarmID", "2024-01-03", "Notes">>,
     <<"FarmID", "Total">>,
     <<"2024-01-01", "Total">>}

Cells == {Some(3), Some(-2), None}

\* The FarmID of the i-th row.
FarmOf(i) == <<"A", "B", "C">>[i]

Range(f) == {f[i] : i \in DOMAIN f}

WideTables ==
    UNION {{[columns |-> Range(h), header |-> h,
             rows |-> [i \in 1..n |-> [FarmID |-> FarmOf(i), cells |-> c[i]]]] :
               c \in [1..n -> [Range(h) \ {"FarmID"} -> Cells]]} :
             h \in WideHeaders, n \in 0..MaxWideRows}

\* pd.to_datetime(name, errors='coerce'): the day, None (NaT) for a name that
\* is no date.
ToDatetime(name) ==
    CASE name = "2024-01-01" -> Some(1)
      [] name = "2024-01-02" -> Some(2)
      [] name = "2024-01-03" -> Some(3)
      [] OTHER -> None

\* <<start_date, end_date>> of the date picker
DateRanges == {<<1, 2>>, <<2, 3>>}

\* <<callback, unit price>>: the irrigation graph at 15, the fertilizer graph at 2
GraphCalls == {<<"irrigation", 15>>, <<"fertilizer", 2>>}

\* The figure of the long rows: px.bar(df_filtered, ...)
CostChart(rows) == [kind |-> "bar chart", rows |-> rows]

GrOutputs(figure, upload_status) == [figure |-> figure, upload_status |-> upload_status]

GrIdle ==
    [pc |-> "idle", kind |-> "irrigation", contents |-> None, price |-> 0,
     start_date |-> 0, end_date |-> 0, df |-> NoTable, date_columns |-> <<>>,
     df_melted |-> <<>>, df_dated |-> <<>>, df_filtered |-> <<>>,
     out |-> GrOutputs(EmptyFigure, "")]

GrReturn(s, figure, upload_status) ==
    [s EXCEPT !.pc = "returned", !.out = GrOutputs(figure, upload_status)]

\* Mutant of DateColumns: Total is not excluded.
DateColumnsWithTotal(header) == SelectSeq(header, LAMBDA col : col # "FarmID")

\* Lines 1583 and 1638: [col for col in df.columns if col not in ['FarmID', 'Total']]
DateColumns(header) == SelectSeq(header, LAMBDA col : col \notin {"FarmID", "Total"})

\* Lines 1585 and 1640: df.melt(id_vars=['FarmID'], value_vars=date_columns):
\* the rows of the first date column, then those of the second, and so on.
Melt(rows, date_columns) ==
    LET m[k \in 0..Len(date_columns)] ==
            IF k = 0 THEN <<>>
            ELSE m[k - 1] \o [i \in DOMAIN rows |->
                                 [FarmID |-> rows[i].FarmID,
                                  Date |-> date_columns[k],
                                  Amount |-> rows[i].cells[date_columns[k]]]]
    IN  m[Len(date_columns)]

\* Lines 1586-1587 and 1641-1642: the dates are parsed, the rows without date
\* are dropped.
ParseDates(df_melted) ==
    SelectSeq([i \in DOMAIN df_melted |->
                  [df_melted[i] EXCEPT !.Date = ToDatetime(@)]],
              LAMBDA r : r.Date # None)

\* Lines 1589 and 1644: the rows inside the date range.
FilterDates(df_dated, start_date, end_date) ==
    SelectSeq(df_dated, LAMBDA r : r.Date[1] >= start_date /\ r.Date[1] <= end_date)

\* Mutant of ToNumeric: a cell that is no number stays missing.
ToNumericNoFill(cell) == cell

\* pd.to_numeric(cell, errors='coerce') and fillna(0), result wrapped
ToNumeric(cell) == IF cell = None THEN Some(0) ELSE cell

\* Lines 1595-1598 and 1650-1653; a missing amount has a missing cost.
AddCost(df_filtered, price) ==
    [i \in DOMAIN df_filtered |->
        LET amount == ToNumeric(df_filtered[i].Amount) IN
        [FarmID |-> df_filtered[i].FarmID, Date |-> df_filtered[i].Date,
         Amount |-> amount,
         Cost |-> IF amount = None THEN None ELSE Some(amount[1] * price)]]

\* Invocation: the callback's arguments.
GrCall ==
    /\ gr.pc = "idle"
    /\ \E u \in UploadsOf(WideTables), c \in GraphCalls, d \in DateRanges :
         gr' = [GrIdle EXCEPT !.pc = "parse", !.kind = c[1], !.contents = u,
                              !.price = c[2],
                              !.start_date = d[1], !.end_date = d[2]]
    /\ UNCHANGED <<ri, fc, t3, hy, pa, pl, rng, th, ef>>

\* Lines 1576-1584, 1590-1592 and 1615-1618: the upload and its columns.
GrParse ==
    /\ gr.pc = "parse"
    /\ IF gr.contents # None
       THEN LET p == parse_contents(gr.contents[1]) IN
            IF p.raised THEN gr' = [gr EXCEPT !.pc = "raised"]
            ELSE IF p.value # None
            THEN LET df == p.value[1] IN
                 IF "FarmID" \notin df.columns
                 THEN gr' = GrReturn(gr, EmptyFigure,
                                "Error: 'FarmID' column not found in " \o gr.kind \o " data.")
                 ELSE IF DateColumns(df.header) # <<>>
                 THEN gr' = [gr EXCEPT !.pc = "melt", !.df = df,
                                       !.date_columns = DateColumns(df.header)]
                 ELSE gr' = GrReturn(gr, EmptyFigure,
                                "Error: No date columns found in " \o gr.kind \o " data.")
            ELSE gr' = GrReturn(gr, EmptyFigure,
                           "Error: Could not parse " \o gr.kind \o " data file.")
       ELSE gr' = GrReturn(gr, EmptyFigure, "")
    /\ UNCHANGED <<ri, fc, t3, hy, pa, pl, rng, th, ef>>

GrMelt ==
    /\ gr.pc = "melt"
    /\ gr' = [gr EXCEPT !.pc = "dates", !.df_melted = Melt(gr.df.rows, gr.date_columns)]
    /\ UNCHANGED <<ri, fc, t3, hy, pa, pl, rng, th, ef>>

GrDates ==
    /\ gr.pc = "dates"
    /\ gr' = [gr EXCEPT !.pc = "filter", !.df_dated = ParseDates(gr.df_melted)]
    /\ UNCHANGED <<ri, fc, t3, hy, pa, pl, rng, th, ef>>

GrFilter ==
    /\ gr.pc = "filter"
    /\ gr' = [gr EXCEPT !.pc = "cost",
                        !.df_filtered = FilterDates(gr.df_dated, gr.start_date, gr.end_date)]
    /\ UNCHANGED <<ri, fc, t3, hy, pa, pl, rng, th, ef>>

\* Lines 1594-1614 and 1649-1669: the cost column, the chart and the status.
GrCost ==
    /\ gr.pc = "cost"
    /\ LET rows == AddCost(gr.df_filtered, gr.price) IN
       gr' = [GrReturn(gr, CostChart(rows),
                  IF gr.kind = "irrigation" THEN "Irrigation data uploaded successfully!"
                  ELSE "Fertilizer data uploaded successfully!")
              EXCEPT !.df_filtered = rows]
    /\ UNCHANGED <<ri, fc, t3, hy, pa, pl, rng, th, ef>>

(***************************************************************************)
(* create_simulated_data under concurrent requests.  numpy's legacy        *)
(* functions np.random.seed, choice, uniform and normal work on one        *)
(* generator of the process.  Its state is the seed it was last given (0:  *)
(* seeded by the operating system at import) and the number of draws since *)
(* then.  A sample is identified by the state it was drawn in.  Each       *)
(* thread serves one request; its pc is the number of statements of        *)
(* Program it has executed.                                                *)
(***************************************************************************)
Threads == {"t1", "t2"}

\* The statements of create_simulated_data that use the generator, by line:
\* the seed, then the seven draws.
Program == <<160, 162, 163, 164, 165, 166, 179, 182>>

RngInit == [seed |-> 0, pos |-> 0]

ThIdle == [t \in Threads |-> [pc |-> 0, samples |-> <<>>]]

\* Line 160: np.random.seed(42)
ThSeed(t) ==
    /\ th[t].pc < Len(Program)
    /\ Program[th[t].pc + 1] = 160
    /\ rng' = [seed |-> 42, pos |-> 0]
    /\ th' = [th EXCEPT ![t].pc = @ + 1]
    /\ UNCHANGED <<ri, fc, t3, hy, pa, gr, pl, ef>>

\* Lines 162-166, 179 and 182: one draw from the generator.
ThDraw(t) ==
    /\ th[t].pc < Len(Program)
    /\ Program[th[t].pc + 1] # 160
    /\ rng' = [rng EXCEPT !.pos = @ + 1]
    /\ th' = [th EXCEPT ![t].pc = @ + 1, ![t].samples = Append(@, rng)]
    /\ UNCHANGED <<ri, fc, t3, hy, pa, gr, pl, ef>>

(***************************************************************************)
(* The efficiency metrics of update_tab3_output (lines 1313-1318), computed *)
(* row by row on the frame of create_simulated_data.  Water_Usage is in     *)
(* tens of gallons, Yield in tenths of a unit, Cost_per_Gallon in cents,    *)
(* money in tenths of a dollar, EWUE and IWUE in hundredths; a quotient is  *)
(* kept exact as numerator and denominator.                                 *)
(***************************************************************************)
MaxEfficiencyRows == 2

\* np.random.uniform(500, 2000), line 166
WaterUsages == {50, 120, 200}

\* np.clip(yields, 0, yield_potential), line 180
Yields == {0, 15, 20, 25, 100}

\* np.random.uniform(0.05, 0.15), line 182
CostsPerGallon == {5, 15}

EfficiencyRecords ==
    [Water_Usage : WaterUsages, Yield : Yields, Cost_per_Gallon : CostsPerGallon]

\* Line 1314
market_price_per_unit == 2

\* Line 1317, in tenths
baseline_yield == 20

\* a / b
Quotient(a, b) == [num |-> a, den |-> b]

\* Mutant of EfficiencyMetrics: IWUE is computed from the revenue.
EfficiencyMetricsFromRevenue(r) ==
    LET Total_Water_Cost == r.Water_Usage * r.Cost_per_Gallon
        Gross_Revenue == r.Yield * market_price_per_unit
    IN  [Water_Usage |-> r.Water_Usage, Yield |-> r.Yield,
         Cost_per_Gallon |-> r.Cost_per_Gallon,
         Total_Water_Cost |-> Total_Water_Cost,
         Gross_Revenue |-> Gross_Revenue,
         EWUE |-> Quotient(100 * (Gross_Revenue - Total_Water_Cost), r.Water_Usage),
         IWUE |-> Quotient(100 * (Gross_Revenue - baseline_yield), r.Water_Usage)]

\* Lines 1313-1318 on one row.
EfficiencyMetrics(r) ==
    LET Total_Water_Cost == r.Water_Usage * r.Cost_per_Gallon
        Gross_Revenue == r.Yield * market_price_per_unit
    IN  [Water_Usage |-> r.Water_Usage, Yield |-> r.Yield,
         Cost_per_Gallon |-> r.Cost_per_Gallon,
         Total_Water_Cost |-> Total_Water_Cost,
         Gross_Revenue |-> Gross_Revenue,
         EWUE |-> Quotient(100 * (Gross_Revenue - Total_Water_Cost), r.Water_Usage),
         IWUE |-> Quotient(100 * (r.Yield - baseline_yield), r.Water_Usage)]

EfIdle == [pc |-> "idle", data |-> <<>>]

\* Line 1224: data = create_simulated_data()
EfCreate ==
    /\ ef.pc = "idle"
    /\ \E data \in SeqsUpTo(EfficiencyRecords, MaxEfficiencyRows) \ {<<>>} :
         ef' = [pc |-> "created", data |-> data]
    /\ UNCHANGED <<ri, fc, t3, hy, pa, gr, pl, rng, th>>

\* Lines 1313-1318: the four metric columns.
EfMetrics ==
    /\ ef.pc = "created"
    /\ ef' = [pc |-> "done",
              data |-> [i \in DOMAIN ef.data |-> EfficiencyMetrics(ef.data[i])]]
    /\ UNCHANGED <<ri, fc, t3, hy, pa, gr, pl, rng, th>>

(***************************************************************************)
(* Specifications: one per operation.  Every callback of the application   *)
(* is a function of its arguments, so each behaviour is one invocation.    *)
(***************************************************************************)
Init ==
    /\ ri = RiIdle /\ fc = FcIdle /\ t3 = T3Idle /\ hy = HyIdle
    /\ pa = PaIdle /\ gr = GrIdle /\ pl = PlIdle
    /\ rng = RngInit /\ th = ThIdle /\ ef = EfIdle

NextRecommend == RiCall \/ RiRule1 \/ RiRule2 \/ RiRule3 \/ RiReturn

SpecRecommend == Init /\ [][NextRecommend]_vars

NextForecastClient == FcGetGridpoint \/ FcGetForecast \/ FcGetGridData

SpecForecastClient == Init /\ [][NextForecastClient]_vars

NextTab3 ==
    T3Call \/ T3Sensor \/ T3Hybrid \/ T3Weather \/ T3Points \/ T3Forecast
    \/ T3GridData \/ T3WaterBalance

SpecTab3 == Init /\ [][NextTab3]_vars

NextEfficiency == EfCreate \/ EfMetrics

SpecEfficiency == Init /\ [][NextEfficiency]_vars

NextRollup == HyCall \/ HyPlantingStep \/ HyIrrigationStep \/ HyFertilizerStep \/ HyMergeStep

SpecRollup == Init /\ [][NextRollup]_vars

NextParse == PaCall \/ PaReturn

SpecParse == Init /\ [][NextParse]_vars

\* One invocation of one of the upload callbacks of the cost tab.
NextCostUploads ==
    \/ pl.pc = "idle" /\ (GrCall \/ GrParse \/ GrMelt \/ GrDates \/ GrFilter \/ GrCost)
    \/ gr.pc = "idle" /\ (PlCall \/ PlReturn)

SpecCostUploads == Init /\ [][NextCostUploads]_vars

\* Two requests served by two threads, in any interleaving.
NextThreads == \E t \in Threads : ThSeed(t) \/ ThDraw(t)

SpecThreads == Init /\ [][NextThreads]_vars

(***************************************************************************)
(* Properties of recommend_irrigation.  The documented per-stage values    *)
(* are written out here, independently of the dictionaries above.          *)
(***************************************************************************)
DocumentedStages == {"germination", "vegetative", "flowering", "maturation"}

DocumentedRequirement(stage) ==
    CASE stage = "germination" -> 20
      [] stage = "vegetative"  -> 30
      [] stage = "flowering"   -> 40
      [] stage = "maturation"  -> 20
      [] OTHER                 -> 30

DocumentedThreshold(stage) ==
    CASE stage = "germination" -> 30
      [] stage = "vegetative"  -> 50
      [] stage = "flowering"   -> 50
      [] stage = "maturation"  -> 30
      [] OTHER                 -> 50

NdviBelowThreshold(s) ==
    s.ndvi # None /\ s.ndvi[1] < DocumentedThreshold(Lower(s.crop_stage))

\* C1: a call with soil_moisture < 30, no rain forecast and no NDVI returns
\* needed = True with the stage's documented depth, for each of the four stages,
\* every qpf and every cost; moisture 25, vegetative, qpf 0, cost 10 gives
\* depth 0.3 and cost 3.0.
C1_DryNoRainIrrigates ==
    (/\ ri.pc = "done"
     /\ ri.soil_moisture < 30
     /\ ~ri.rain_forecast
     /\ ri.ndvi = None
     /\ ri.crop_stage \in DocumentedStages)
    => /\ ri.irrigation_needed
       /\ ri.water_in_inches = DocumentedRequirement(ri.crop_stage)
       /\ (ri.soil_moisture = 25 /\ ri.crop_stage = "vegetative"
              /\ ri.qpf = 0 /\ ri.cost_per_acre_inch = 10)
          => (ri.water_in_inches = 30 /\ ri.total_cost = 300)

C1_Witness ==
    /\ ri.pc = "done"
    /\ ri.soil_moisture = 25 /\ ri.crop_stage = "vegetative" /\ ~ri.rain_forecast
    /\ ri.qpf = 0 /\ ri.ndvi = None /\ ri.cost_per_acre_inch = 10
    /\ ri.irrigation_needed /\ ri.water_in_inches = 30 /\ ri.total_cost = 300

\* C2: when rules 1 and 2 have left needed = False, an NDVI strictly below the
\* stage's threshold makes rule 3 set needed = True and depth = max(depth so far,
\* stage requirement), and the call returns exactly that; this also holds after
\* rule 2 (rain forecast and qpf > 0.2) suppressed irrigation.
C2_Rule3Override ==
    [][/\ (ri.pc = "rule3" /\ ~ri.irrigation_needed /\ NdviBelowThreshold(ri))
          => /\ ri'.irrigation_needed
             /\ ri'.water_in_inches =
                    Max(ri.water_in_inches, DocumentedRequirement(Lower(ri.crop_stage)))
       /\ (ri.pc = "cost")
          => /\ ri'.pc = "done"
             /\ ri'.irrigation_needed = ri.irrigation_needed
             /\ ri'.water_in_inches = ri.water_in_inches]_vars

C2_Witness ==
    /\ ri.pc = "done"
    /\ ri.soil_moisture = 25 /\ ri.crop_stage = "vegetative"
    /\ ri.rain_forecast /\ ri.qpf = 50 /\ ri.ndvi = Some(20)
    /\ ri.irrigation_needed /\ ri.water_in_inches = 30

\* C3: with rain forecast and qpf > 0.2, and the NDVI absent or not below the
\* stage's threshold, the call returns needed = False for every soil moisture
\* and every crop stage.
C3_RainSuppresses ==
    (/\ ri.pc = "done"
     /\ ri.rain_forecast
     /\ ri.qpf > 20
     /\ ~NdviBelowThreshold(ri))
    => ~ri.irrigation_needed

C3_Witness ==
    /\ ri.pc = "done"
    /\ ri.soil_moisture = 25 /\ ri.crop_stage = "vegetative"
    /\ ri.rain_forecast /\ ri.qpf = 50 /\ ri.ndvi = Some(50)
    /\ ~ri.irrigation_needed /\ ri.water_in_inches = 0

(***************************************************************************)
(* Properties of the forecast client.                                      *)
(***************************************************************************)
\* The decoded JSON lacks a key the operation reads.
LacksExpectedKeys(op, r) ==
    \/ ~r.body.has_properties
    \/ op = "get_gridpoint_by_coords" /\ r.body.keys # PointKeys
    \/ op = "get_forecast_by_gridpoint" /\ "periods" \notin r.body.keys
    \/ op = "get_forecast_grid_data" /\ "quantitativePrecipitation" \notin r.body.keys
    \/ \E i \in DOMAIN r.body.items : ~r.body.items[i].complete

FailedResponse(op, r) ==
    r.error \/ r.status_code # 200 \/ ~r.is_json \/ LacksExpectedKeys(op, r)

FailureValue(op) == IF op = "get_gridpoint_by_coords" THEN NoGridpoint ELSE None

\* C6: each of the three forecast client operations returns and never raises,
\* and for a non-200 status, a connection exception, a body that is not JSON or
\* JSON lacking the expected keys it returns its failure value (None, or five
\* None for the grid lookup).
C6_ClientNeverRaises ==
    fc.pc = "done"
    => /\ ~fc.out.raised
       /\ FailedResponse(fc.op, fc.resp) => fc.out.value = FailureValue(fc.op)

C6_Witness ==
    /\ fc.pc = "done"
    /\ fc.op = "get_gridpoint_by_coords"
    /\ ~fc.resp.error /\ fc.resp.status_code = 200 /\ fc.resp.is_json
    /\ fc.resp.body.has_properties /\ fc.resp.body.keys = PointKeys \ {"forecastGridData"}
    /\ ~fc.out.raised /\ fc.out.value = NoGridpoint

(***************************************************************************)
(* Properties of update_tab3_output.                                       *)
(***************************************************************************)
\* C4: the irrigation threshold of the water-balance step is never negative,
\* for every average soil moisture, every forecast rainfall series (the empty
\* one included) and every stage capacity (the default one included).
C4_ThresholdNeverNegative == t3.irrigation_threshold >= 0

C4_Witness ==
    /\ t3.pc = "returned"
    /\ t3.out.fig_forecast = "chart"
    /\ t3.growth_stage = Some("dormant")
    /\ t3.forecast_df.rows # <<>>
    /\ t3.average_soil_moisture + t3.total_forecasted_rain > 79 * 254
    /\ t3.irrigation_threshold = 0

\* Every list the forecast service returned held at least one item.
FetchedDataWellFormed ==
    /\ Len(t3.requests) = 3 => ~IsEmpty(t3.forecast_df)
    /\ t3.qpf_df # None => ~IsEmpty(t3.qpf_df[1])

\* C5: after the weather button is clicked, for every combination of outcomes
\* of the three forecast-service calls (each succeeding with well-formed data
\* or failing), update_tab3_output returns its five outputs and does not raise.
C5_ClickedAlwaysReturns ==
    (t3.n_clicks > 0 /\ t3.requests # <<>> /\ FetchedDataWellFormed)
    => t3.pc # "raised"

(***************************************************************************)
(* Properties of update_total_cost_per_hybrid.                             *)
(***************************************************************************)
HyTerminated == hy.pc \in {"returned", "raised"}

\* The upload is there, parse_contents reads a table from it and the table has
\* the columns.
ValidUpload(u, columns) ==
    /\ u # None
    /\ ~parse_contents(u[1]).raised
    /\ parse_contents(u[1]).value # None
    /\ columns \subseteq parse_contents(u[1]).value[1].columns

ValidPlanting == ValidUpload(hy.planting, PlantingColumns)

AbsentOrValid(u) == u = None \/ ValidUpload(u, {"FarmID", "Total"})

\* The rows of a cost upload, none when it is absent.
RowsOf(u) == IF u = None THEN <<>> ELSE u[1].table.rows

\* The whole callback on the arguments held by s.
RollupOf(s) ==
    LET a == HyPlanting([s EXCEPT !.pc = "planting", !.parsed = <<>>,
                                  !.planting_df = NoTable, !.total_cost_df = EmptyFrame,
                                  !.out = EmptyFigure])
        b == IF a.pc = "irrigation" THEN HyIrrigation(a) ELSE a
        c == IF b.pc = "fertilizer" THEN HyFertilizer(b) ELSE b
    IN  IF c.pc = "merge" THEN HyMerge(c) ELSE c

\* The upload u with every Total set to 0, for the same farms.
ZeroCosts(u) ==
    Some([u[1] EXCEPT !.table.rows = [i \in DOMAIN @ |-> [@[i] EXCEPT !.Total = 0]]])

\* C7: with valid planting data, the rollup given only an irrigation table
\* returns the same per-hybrid totals as when it is also given a fertilizer
\* table whose costs are all 0 for the same farms, and symmetrically for
\* fertilizer only.
C7_RollupCommutesWithAbsence ==
    /\ (HyTerminated /\ ValidPlanting /\ ValidUpload(hy.irrigation, {"FarmID", "Total"})
          /\ RowsOf(hy.irrigation) # <<>> /\ hy.fertilizer = None)
       => /\ hy.pc = "returned"
          /\ hy.out = RollupOf([hy EXCEPT !.fertilizer = ZeroCosts(hy.irrigation)]).out
    /\ (HyTerminated /\ ValidPlanting /\ ValidUpload(hy.fertilizer, {"FarmID", "Total"})
          /\ RowsOf(hy.fertilizer) # <<>> /\ hy.irrigation = None)
       => /\ hy.pc = "returned"
          /\ hy.out = RollupOf([hy EXCEPT !.irrigation = ZeroCosts(hy.fertilizer)]).out

UniqueFarms(rows) ==
    \A i, j \in DOMAIN rows : rows[i].FarmID = rows[j].FarmID => i = j

FarmsIn(rows) == {rows[i].FarmID : i \in DOMAIN rows}

\* The Total of farm f in a cost table times the price, 0 when the table has no
\* row of the farm.
CostOfFarm(rows, f, price) ==
    IF f \in FarmsIn(rows)
    THEN rows[CHOOSE i \in DOMAIN rows : rows[i].FarmID = f].Total * price
    ELSE 0

\* The sum, over the planting rows naming hybrid h whose farm is in a cost
\* table, of the farm's irrigation cost plus its fertilizer cost.
DocumentedTotal(h) ==
    LET planting == hy.planting_df.rows
        sum[k \in 0..Len(planting)] ==
            IF k = 0 THEN 0
            ELSE sum[k - 1]
                 + (IF planting[k].CompanyHybrid = h
                       /\ planting[k].FarmID \in
                              FarmsIn(RowsOf(hy.irrigation)) \cup FarmsIn(RowsOf(hy.fertilizer))
                    THEN CostOfFarm(RowsOf(hy.irrigation), planting[k].FarmID,
                                    hy.price_irrigation)
                         + CostOfFarm(RowsOf(hy.fertilizer), planting[k].FarmID,
                                      hy.price_fertilizer)
                    ELSE 0)
    IN  sum[Len(planting)]

\* The hybrids of the planting rows whose farm is in a cost table.
HybridsWithCosts ==
    {hy.planting_df.rows[i].CompanyHybrid :
        i \in {j \in DOMAIN hy.planting_df.rows :
                  hy.planting_df.rows[j].FarmID \in
                      FarmsIn(RowsOf(hy.irrigation)) \cup FarmsIn(RowsOf(hy.fertilizer))}}

\* The total the rollup gives hybrid h, 0 when the chart has no bar for it.
RollupTotal(h) == IF h \in DOMAIN hy.out.totals THEN hy.out.totals[h] ELSE 0

\* C8: when the rollup returns (every table naming each farm at most once),
\* each hybrid's total is the sum, over the farms planted with it that are in at
\* least one cost table, of irrigation total x price + fertilizer total x price,
\* a farm missing from one table counting 0 there; no farm is lost or doubled.
C8_TotalIsSumOverFarms ==
    (/\ hy.pc = "returned"
     /\ ValidPlanting /\ AbsentOrValid(hy.irrigation) /\ AbsentOrValid(hy.fertilizer)
     /\ UniqueFarms(hy.planting_df.rows)
     /\ UniqueFarms(RowsOf(hy.irrigation)) /\ UniqueFarms(RowsOf(hy.fertilizer)))
    => /\ DOMAIN hy.out.totals \subseteq HybridsWithCosts
       /\ \A h \in HybridsWithCosts : RollupTotal(h) = DocumentedTotal(h)

\* C9: if the planting upload is absent, cannot be parsed or lacks a required
\* column, the rollup returns the empty result whatever the other uploads hold,
\* before the irrigation or the fertilizer upload is processed.
C9_PlantingMandatory ==
    (HyTerminated /\ ~ValidPlanting)
    => /\ hy.pc = "returned"
       /\ hy.out = EmptyFigure
       /\ \A i \in DOMAIN hy.parsed : hy.parsed[i] = "planting"

\* C10: with valid planting data the rollup never raises, for every combination
\* of irrigation upload present or absent and fertilizer upload present or
\* absent, both absent included.
C10_ValidPlantingNeverRaises ==
    (/\ HyTerminated
     /\ ValidPlanting /\ hy.planting_df.rows # <<>>
     /\ AbsentOrValid(hy.irrigation) /\ AbsentOrValid(hy.fertilizer))
    => hy.pc = "returned"

(***************************************************************************)
(* Properties of the cost graphs (update_irrigation_graph and              *)
(* update_fertilizer_graph).  The names that are dates and their days are  *)
(* written out here, independently of ToDatetime.                          *)
(***************************************************************************)
DateNames == {"2024-01-01", "2024-01-02", "2024-01-03"}

\* The callback has melted its table.
GrMelted == gr.pc \in {"dates", "filter", "cost"} \/ (gr.pc = "returned" /\ gr.date_columns # <<>>)

\* The callback has dropped the rows without date.
GrDated == gr.pc \in {"filter", "cost"} \/ (gr.pc = "returned" /\ gr.date_columns # <<>>)

\* The day a date name stands for.
DayOf(name) == CHOOSE d \in 1..3 : name = <<"2024-01-01", "2024-01-02", "2024-01-03">>[d]

\* The number of melted rows that come from row i and column c of the table.
RowsFrom(i, c) ==
    Cardinality({k \in DOMAIN gr.df_melted :
                    /\ gr.df_melted[k].FarmID = gr.df.rows[i].FarmID
                    /\ gr.df_melted[k].Amount = gr.df.rows[i].cells[c]
                    /\ gr.df_melted[k].Date = c})

\* The number of dated rows that come from row i and date column c.
DatedRowsFrom(i, c) ==
    Cardinality({k \in DOMAIN gr.df_dated :
                    /\ gr.df_dated[k].FarmID = gr.df.rows[i].FarmID
                    /\ gr.df_dated[k].Amount = gr.df.rows[i].cells[c]
                    /\ gr.df_dated[k].Date = Some(DayOf(c))})

\* C11: melting a table of N farms and M date columns (all columns but FarmID
\* and Total) gives N x M long rows, one per farm and date column and none
\* for Total; dropping the rows without date then removes exactly the rows of
\* the columns whose name is no date.
C11_MeltKeepsEveryCell ==
    LET N == Len(gr.df.rows)
        columns == gr.df.columns \ {"FarmID", "Total"}
        M == Cardinality(columns)
        dated == columns \cap DateNames
    IN  /\ GrMelted =>
            /\ Len(gr.df_melted) = N * M
            /\ \A i \in 1..N, c \in columns : RowsFrom(i, c) = 1
            /\ \A k \in DOMAIN gr.df_melted : gr.df_melted[k].Date # "Total"
        /\ GrDated =>
            /\ Len(gr.df_dated) = N * M - N * Cardinality(columns \ DateNames)
            /\ \A i \in 1..N, c \in dated : DatedRowsFrom(i, c) = 1

\* A table of two farms with a Total column and a column that is no date has
\* been melted and its undated rows dropped.
C11_Witness ==
    /\ gr.pc = "filter"
    /\ gr.df.header = <<"FarmID", "Notes", "2024-01-02", "Total">>
    /\ Len(gr.df.rows) = 2
    /\ Len(gr.df_melted) = 4
    /\ Len(gr.df_dated) = 2

\* The amount of a long row in the uploaded table: the cell of its farm in the
\* column of its date, 0 when the cell is no number.
DocumentedAmount(r) ==
    LET i == CHOOSE j \in DOMAIN gr.df.rows : gr.df.rows[j].FarmID = r.FarmID
        c == CHOOSE d \in gr.df.columns \cap DateNames : Some(DayOf(d)) = r.Date
        cell == gr.df.rows[i].cells[c]
    IN  IF cell = None THEN 0 ELSE cell[1]

\* The callback has returned its chart.
GrCharted == gr.pc = "returned" /\ gr.out.figure.kind = "bar chart"

\* C12: every row of the returned long form has cost = amount x unit price, a
\* cell that is no number counting as amount 0, and a readable table with
\* FarmID and a date column never makes the callback raise; farms {A, B} with
\* the dates 2024-01-01 and 2024-01-02 in the range and price 15 give 4 rows.
C12_CostIsAmountTimesPrice ==
    /\ gr.date_columns # <<>> => gr.pc # "raised"
    /\ GrCharted =>
          \A k \in DOMAIN gr.out.figure.rows :
             LET r == gr.out.figure.rows[k] IN
             /\ r.Amount = Some(DocumentedAmount(r))
             /\ r.Cost = Some(DocumentedAmount(r) * gr.price)
    /\ (/\ GrCharted
        /\ gr.df.header = <<"FarmID", "2024-01-01", "2024-01-02">>
        /\ Len(gr.df.rows) = 2
        /\ gr.start_date = 1 /\ gr.end_date = 2 /\ gr.price = 15)
       => Len(gr.out.figure.rows) = 4

\* The example table with a cell that is no number has been charted.
C12_Witness ==
    /\ GrCharted
    /\ gr.df.header = <<"FarmID", "2024-01-01", "2024-01-02">>
    /\ Len(gr.df.rows) = 2
    /\ gr.start_date = 1 /\ gr.end_date = 2 /\ gr.price = 15
    /\ gr.df.rows[1].cells["2024-01-01"] = None
    /\ gr.df.rows[2].cells["2024-01-02"] = Some(3)
    /\ Len(gr.out.figure.rows) = 4

(***************************************************************************)
(* Properties of the uploads of update_tab3_output.                        *)
(***************************************************************************)
\* parse_contents reads a table from the upload.
Readable(u) ==
    /\ u # None
    /\ ~parse_contents(u[1]).raised
    /\ parse_contents(u[1]).value # None

SensorMissing == SensorColumns \ t3.sensor[1].table.columns

HybridMissing == {"Sensor_ID", "CompanyHybrid"} \ t3.hybrid[1].table.columns

\* The sensor stage is over and has not ended the callback.
SensorPassed == t3.pc \notin {"idle", "sensor"} /\ t3.upload_status # ""

\* The required columns a status names: the two of the hybrid message, or
\* the ones listed after the colon of the sensor message.
ColumnsNamedIn(message) ==
    IF message = "Error: Missing 'Sensor_ID' or 'CompanyHybrid' columns in hybrid data."
    THEN {"Sensor_ID", "CompanyHybrid"}
    ELSE LET listed == {S \in (SUBSET SensorColumns) \ {{}} :
                           message = "Error: Missing columns in sensor data: "
                                     \o JoinNames(SelectSeq(SensorRequiredColumns,
                                                            LAMBDA c : c \in S))}
         IN  IF listed = {} THEN {} ELSE CHOOSE S \in listed : TRUE

\* C13: a sensor or hybrid upload that lacks a required column is rejected,
\* and the status names exactly the required columns that are missing.
C13_RejectionNamesMissingColumns ==
    /\ (Readable(t3.sensor) /\ SensorMissing # {} /\ t3.pc \notin {"idle", "sensor"})
       => /\ t3.pc = "returned"
          /\ t3.out.fig_forecast = "empty"
          /\ ColumnsNamedIn(t3.out.upload_status) = SensorMissing
    /\ (/\ Readable(t3.hybrid) /\ HybridMissing # {}
        /\ SensorPassed /\ t3.pc # "hybrid")
       => /\ t3.pc = "returned"
          /\ t3.out.fig_forecast = "empty"
          /\ ColumnsNamedIn(t3.out.upload_status) = HybridMissing

\* The rows of the sensor upload whose date pd.to_datetime can parse.
DatedSensorRows == SelectSeq(t3.sensor[1].table.rows, LAMBDA r : r.Date # None)

\* C14: a sensor upload with rows whose date cannot be parsed is not rejected:
\* the callback goes on with exactly the rows that have a date, and its status
\* is not the plain success message.
C14_UndatedRowsDropped ==
    (/\ Readable(t3.sensor) /\ SensorMissing = {}
     /\ DatedSensorRows # <<>>
     /\ Len(DatedSensorRows) < Len(t3.sensor[1].table.rows)
     /\ t3.pc \notin {"idle", "sensor"})
    => /\ SensorPassed
       /\ t3.moisture_df.rows = DatedSensorRows
       /\ t3.upload_status # "Sensor data uploaded successfully!"

(***************************************************************************)
(* Properties of parse_contents.                                           *)
(***************************************************************************)
\* The extension of a file name, in lower case.
Extension(filename) ==
    CASE filename \in {"data.csv", "DATA.CSV"} -> "csv"
      [] filename \in {"data.xlsx", "csv.xlsx"} -> "xlsx"
      [] filename = "data.xls" -> "xls"
      [] filename \in {"data.txt", "csv_notes.txt"} -> "txt"

\* What reading the bytes as `format` gives: the table, or the failure value.
ReadAs(u, format) == IF u.format = format THEN Returned(Some(u.table)) ELSE Returned(None)

\* C15: parse_contents dispatches on the extension of the file name: csv to
\* the delimited-text reader, xls and xlsx to the spreadsheet reader, every
\* other extension to the failure value, whatever else the name contains.
C15_DispatchOnExtension ==
    (pa.pc = "done" /\ pa.upload[1].commas = 1 /\ pa.upload[1].b64_ok)
    => LET u == pa.upload[1] IN
       pa.result = CASE Extension(u.filename) = "csv" -> ReadAs(u, "csv")
                     [] Extension(u.filename) \in {"xls", "xlsx"} -> ReadAs(u, "excel")
                     [] OTHER -> Returned(None)

\* C16: parse_contents never raises: for every contents string (no comma,
\* several commas, invalid base64, bytes that are no UTF-8 text, a malformed
\* table) it returns, and it returns the failure value unless it read a table.
C16_ParseNeverRaises ==
    pa.pc = "done"
    => /\ ~pa.result.raised
       /\ (pa.upload[1].commas # 1 \/ ~pa.upload[1].b64_ok
           \/ pa.upload[1].format \in {"malformed", "binary"})
          => pa.result = Returned(None)

(***************************************************************************)
(* Properties of the water-balance step.                                   *)
(***************************************************************************)
\* The step can read the forecast: it is empty or has the rainfall column.
ForecastUsable(forecast_df) ==
    IsEmpty(forecast_df) \/ "Rainfall_Forecast" \in forecast_df.columns

DocumentedMeanQpf(samples) ==
    LET present == {i \in DOMAIN samples : samples[i] # None}
        total[k \in 0..Len(samples)] ==
            IF k = 0 THEN 0
            ELSE total[k - 1] + (IF samples[k] # None THEN samples[k][1] ELSE 0)
    IN  IF present = {} THEN 0 ELSE total[Len(samples)] \div Cardinality(present)

\* C18: when the precipitation grid is fetched, the caller's mean amount is
\* the mean of the samples that are not null, and 0 when the series is empty
\* or all null; fetching it never makes the caller raise.
C18_MeanQpfOfNonNull ==
    [][(/\ t3.pc = "griddata"
        /\ "rain_forecast" \in t3.forecast_df.columns
        /\ t3'.qpf_df # None)
       => /\ t3'.pc = "balance"
          /\ t3'.qpf = Some(DocumentedMeanQpf(
                           [i \in DOMAIN t3'.qpf_df[1].rows |->
                               t3'.qpf_df[1].rows[i].qpf]))]_vars

(***************************************************************************)
(* Properties of concurrent requests.                                      *)
(***************************************************************************)
\* The samples of create_simulated_data when it runs alone: the first seven
\* draws after the seed 42.
SamplesAlone == [k \in 1..(Len(Program) - 1) |-> [seed |-> 42, pos |-> k - 1]]

\* C19: a request that runs interleaved with another one returns what it
\* returns when run alone.
C19_InterleavingInvisible ==
    \A t \in Threads : th[t].pc = Len(Program) => th[t].samples = SamplesAlone

(***************************************************************************)
(* Properties of the amounts.                                              *)
(***************************************************************************)
\* C20: every cost of the returned long form of an irrigation or fertilizer
\* table is non-negative.
C20_CostsNonNegative ==
    GrCharted =>
       \A k \in DOMAIN gr.out.figure.rows :
          /\ gr.out.figure.rows[k].Cost # None
          /\ gr.out.figure.rows[k].Cost[1] >= 0

(***************************************************************************)
(* Further properties of recommend_irrigation.                             *)
(***************************************************************************)
\* The lower-case form of a stage name, written out for the names in use.
CanonicalStage(name) ==
    CASE name \in {"germination", "Germination", "GERMINATION"} -> "germination"
      [] name \in {"vegetative", "Vegetative", "VEGETATIVE"}    -> "vegetative"
      [] name \in {"flowering", "Flowering", "FLOWERING"}       -> "flowering"
      [] name \in {"maturation", "Maturation", "MATURATION"}    -> "maturation"
      [] OTHER -> name

\* The documented soil capacity of a stage, in hundredths of an inch.
DocumentedCapacity(stage) ==
    CASE stage = "germination" -> 118
      [] stage = "vegetative"  -> 157
      [] stage = "flowering"   -> 197
      [] stage = "maturation"  -> 138
      [] OTHER                 -> 79

RiRule1Fires == ri.soil_moisture < 30 /\ ~ri.rain_forecast

RiRule3Fires ==
    ri.ndvi # None /\ ri.ndvi[1] < DocumentedThreshold(CanonicalStage(ri.crop_stage))

\* C21: stage lookups are case-insensitive and total.  In recommend_irrigation
\* a name in any case gets the requirement and the NDVI threshold of its
\* lower-case form, an unknown name gets 0.3 and 0.5; in the water balance a
\* name in any case gets the capacity of its lower-case form and every value,
\* an unknown name and no name included, gets a capacity.
C21_StageLookupsIgnoreCase ==
    /\ (ri.pc \in {"rule2", "rule3", "cost"} /\ RiRule1Fires)
       => ri.water_in_inches = DocumentedRequirement(CanonicalStage(ri.crop_stage))
    /\ (ri.pc = "done" /\ ~RiRule1Fires)
       => /\ ri.irrigation_needed = RiRule3Fires
          /\ ri.water_in_inches =
                IF RiRule3Fires THEN DocumentedRequirement(CanonicalStage(ri.crop_stage))
                ELSE 0
    /\ \A g \in GrowthStages :
          SoilCapacity(g) =
             254 * (IF g = None THEN DocumentedCapacity("vegetative")
                    ELSE DocumentedCapacity(CanonicalStage(g[1])))

\* An upper-case stage name got the requirement of flowering by rule 1.
C21_Witness ==
    /\ ri.pc = "done"
    /\ ri.crop_stage = "FLOWERING"
    /\ RiRule1Fires
    /\ ri.ndvi = Some(49)
    /\ ri.irrigation_needed /\ ri.water_in_inches = 40

\* C22: on every path through the three rules the returned cost is the
\* returned depth times cost_per_acre_inch, and the depth is 0 or a stage
\* requirement: the constant 102790.4 enters neither.
C22_CostIsDepthTimesPrice ==
    ri.pc = "done"
    => /\ ri.total_cost = ri.water_in_inches * ri.cost_per_acre_inch
       /\ ri.water_in_inches \in {0, 20, 30, 40}
       /\ ri.total_cost \in {0, 200, 300, 400}

\* Rule 3 alone set the depth, after rule 2 fired.
C22_Witness ==
    /\ ri.pc = "done"
    /\ ri.rain_forecast /\ ri.qpf = 50
    /\ ri.crop_stage = "flowering" /\ ri.ndvi = Some(20)
    /\ ri.cost_per_acre_inch = 10
    /\ ri.water_in_inches = 40 /\ ri.total_cost = 400

\* The whole function on the arguments held by s.
RecommendOf(s) ==
    TotalCost(Rule3(Rule2(Rule1([s EXCEPT !.irrigation_needed = FALSE,
                                          !.water_in_inches = 0,
                                          !.total_cost = 0]))))

\* C28: the result does not depend on qpf: a call with any other qpf and the
\* same other arguments returns the same needed, depth and cost.
C28_ResultIndependentOfQpf ==
    ri.pc = "done"
    => \A q \in QpfValues :
          LET other == RecommendOf([ri EXCEPT !.qpf = q]) IN
          /\ other.irrigation_needed = ri.irrigation_needed
          /\ other.water_in_inches = ri.water_in_inches
          /\ other.total_cost = ri.total_cost

\* A call on dry soil without rain forecast and with a qpf above 0.2 returned.
C28_Witness ==
    /\ ri.pc = "done"
    /\ ri.soil_moisture = 25 /\ ~ri.rain_forecast /\ ri.qpf = 50
    /\ ri.ndvi = None /\ ri.cost_per_acre_inch = 10
    /\ ri.irrigation_needed /\ ri.total_cost > 0

\* C29: the returned depth is 0 or the stage's requirement: needed = False
\* comes with depth 0 and cost 0, needed = True with the requirement of the
\* stage (0.3 for an unknown one); soil moisture exactly 30 does not trigger
\* rule 1 and an NDVI equal to the threshold does not trigger rule 3.
C29_DepthIsZeroOrRequirement ==
    ri.pc = "done"
    => /\ ~ri.irrigation_needed => (ri.water_in_inches = 0 /\ ri.total_cost = 0)
       /\ ri.irrigation_needed
          => ri.water_in_inches = DocumentedRequirement(CanonicalStage(ri.crop_stage))
       /\ (/\ ri.soil_moisture = 30
           /\ ri.ndvi \in {None, Some(DocumentedThreshold(CanonicalStage(ri.crop_stage)))})
          => ~ri.irrigation_needed

\* Soil moisture 30 and an NDVI equal to the threshold: nothing is needed.
C29_Witness ==
    /\ ri.pc = "done"
    /\ ri.soil_moisture = 30 /\ ~ri.rain_forecast
    /\ ri.crop_stage = "vegetative" /\ ri.ndvi = Some(50)
    /\ ~ri.irrigation_needed /\ ri.water_in_inches = 0

(***************************************************************************)
(* Further properties of update_total_cost_per_hybrid.                     *)
(***************************************************************************)
\* The upload is a readable cost table with FarmID and at least one date
\* column; it may or may not have a Total column.
DatedCostUpload(u) ==
    /\ ValidUpload(u, {"FarmID"})
    /\ u[1].table.columns \ {"FarmID", "Total"} # {}

\* C23: the Total column of a cost table is optional: with valid planting
\* data, the rollup accepts irrigation and fertilizer tables that have FarmID
\* and date columns, with or without Total, and ends with per-hybrid totals
\* or the "no data" figure, not with the empty figure of a rejected upload.
C23_TotalColumnOptional ==
    (/\ HyTerminated /\ ValidPlanting
     /\ DatedCostUpload(hy.irrigation) /\ DatedCostUpload(hy.fertilizer))
    => /\ hy.pc = "returned"
       /\ hy.out # EmptyFigure

\* The planting rows that survive the selected-hybrid filter.
SurvivingPlanting ==
    IF hy.selected_hybrids # None /\ hy.selected_hybrids[1] # {}
    THEN SelectSeq(hy.planting[1].table.rows,
                   LAMBDA r : r.CompanyHybrid \in hy.selected_hybrids[1])
    ELSE hy.planting[1].table.rows

\* The surviving planting rows of hybrid h whose farm is in the irrigation
\* table.
CountedRows(h) ==
    {k \in DOMAIN SurvivingPlanting :
        /\ SurvivingPlanting[k].CompanyHybrid = h
        /\ SurvivingPlanting[k].FarmID \in FarmsIn(RowsOf(hy.irrigation))}

\* The full cost of the farm of each counted row, added up.
CountedTotal(h) ==
    LET sum[k \in 0..Len(SurvivingPlanting)] ==
            IF k = 0 THEN 0
            ELSE sum[k - 1]
                 + (IF k \in CountedRows(h)
                    THEN CostOfFarm(RowsOf(hy.irrigation), SurvivingPlanting[k].FarmID,
                                    hy.price_irrigation)
                         + CostOfFarm(RowsOf(hy.fertilizer), SurvivingPlanting[k].FarmID,
                                      hy.price_fertilizer)
                    ELSE 0)
    IN  sum[Len(SurvivingPlanting)]

\* C30: when the rollup returns with both cost tables present (each naming a
\* farm at most once), a hybrid's total is the full cost of a farm added once
\* per surviving planting row of that hybrid and farm: a farm without such a
\* row adds to no total, a farm with k rows adds k times, and a farm that is
\* only in the fertilizer table adds to no total.
C30_CostCountedPerPlantingRow ==
    (/\ hy.pc = "returned"
     /\ ValidPlanting
     /\ ValidUpload(hy.irrigation, {"FarmID", "Total"})
     /\ ValidUpload(hy.fertilizer, {"FarmID", "Total"})
     /\ UniqueFarms(RowsOf(hy.irrigation)) /\ UniqueFarms(RowsOf(hy.fertilizer)))
    => /\ DOMAIN hy.out.totals = {h \in Hybrids : CountedRows(h) # {}}
       /\ \A h \in DOMAIN hy.out.totals : hy.out.totals[h] = CountedTotal(h)

\* Two planting rows of farm F1 and hybrid H1: the cost of F1, 3 x 2 + 5 x 3,
\* is counted twice, and F2, only in the fertilizer table, is not counted.
C30_Witness ==
    /\ hy.pc = "returned"
    /\ ValidPlanting
    /\ ValidUpload(hy.irrigation, {"FarmID", "Total"})
    /\ ValidUpload(hy.fertilizer, {"FarmID", "Total"})
    /\ hy.planting[1].table.rows =
          <<[FarmID |-> "F1", CompanyHybrid |-> "H1"], [FarmID |-> "F1", CompanyHybrid |-> "H1"]>>
    /\ RowsOf(hy.irrigation) = <<[FarmID |-> "F1", Total |-> 3]>>
    /\ RowsOf(hy.fertilizer) = <<[FarmID |-> "F1", Total |-> 5], [FarmID |-> "F2", Total |-> 5]>>
    /\ hy.out = BarChart([h \in {"H1"} |-> 42])

(***************************************************************************)
(* Further properties of update_tab3_output.                               *)
(***************************************************************************)
\* The daily rainfall of the returned forecast, added up over days 1..i.
RainUpTo(i) ==
    LET total[k \in 0..i] ==
            IF k = 0 THEN 0 ELSE total[k - 1] + t3.forecast_df.rows[k].Rainfall_Forecast
    IN  total[i]

\* C25: when the water-balance step has returned, the cumulative rainfall of
\* each forecast day is the running sum of the daily rainfall up to that day,
\* the total available water of a day is the average soil moisture plus that
\* day's cumulative rainfall, the threshold is max(capacity - (average
\* moisture + rainfall of the whole horizon), 0), and with a forecast the
\* threshold is positive exactly when the last day's total available water is
\* below the capacity.
C25_WaterBalanceSeries ==
    (t3.pc = "returned" /\ t3.out.fig_forecast = "chart")
    => LET rows == t3.forecast_df.rows
           capacity == SoilCapacity(t3.growth_stage)
       IN  /\ \A i \in DOMAIN rows :
                 /\ rows[i].Cumulative_Rainfall = RainUpTo(i)
                 /\ rows[i].Total_Available_Water
                       = t3.average_soil_moisture + rows[i].Cumulative_Rainfall
           /\ t3.irrigation_threshold
                 = Max(capacity - (t3.average_soil_moisture + RainUpTo(Len(rows))), 0)
           /\ rows # <<>>
                 => (t3.irrigation_threshold > 0
                        <=> rows[Len(rows)].Total_Available_Water < capacity)

\* Rain on the first two days, 10000 units each, and a positive threshold.
C25_Witness ==
    /\ t3.pc = "returned"
    /\ Len(t3.forecast_df.rows) >= 2
    /\ t3.forecast_df.rows[1].Rainfall_Forecast = 10000
    /\ t3.forecast_df.rows[2].Cumulative_Rainfall = 20000
    /\ t3.irrigation_threshold > 0

T3Terminated == t3.pc \in {"returned", "raised"}

\* The sensor upload is there and is unparseable, lacks a column or has a
\* date that cannot be parsed.
SensorFails ==
    /\ t3.sensor # None
    /\ \/ ~Readable(t3.sensor)
       \/ SensorMissing # {}
       \/ \E i \in DOMAIN t3.sensor[1].table.rows : t3.sensor[1].table.rows[i].Date = None

\* The hybrid upload is there and is unparseable or lacks a column.
HybridFails ==
    /\ t3.hybrid # None
    /\ ~Readable(t3.hybrid) \/ HybridMissing # {}

\* The statuses of an invocation whose uploads passed.
SuccessStatuses ==
    {"Sensor data uploaded successfully!", "Using simulated sensor data.",
     "Hybrid data uploaded successfully!"}

\* C26: when the validation of the sensor upload or of the hybrid upload
\* fails, the invocation ends with a status message and empty values for the
\* four other outputs, and without any request to the forecast service.
C26_ValidationFailureEndsInline ==
    (T3Terminated /\ (SensorFails \/ HybridFails))
    => /\ t3.pc = "returned"
       /\ t3.out.upload_status \notin SuccessStatuses \cup {""}
       /\ t3.out = ErrorOutputs(t3.out.upload_status)
       /\ t3.requests = <<>>

\* The order of the requests of one invocation.
RequestOrder == <<"points", "forecast", "griddata">>

\* C27: in one invocation the forecast service is contacted only when
\* n_clicks > 0 and latitude and longitude are present; the requests are the
\* points lookup, the period forecast and the precipitation grid in that
\* order, each at most once, and a request is issued only after every earlier
\* one succeeded; so there are at most three, and none when n_clicks = 0.
C27_RequestsInOrder ==
    [][t3'.requests # t3.requests
       => /\ Len(t3'.requests) = Len(t3.requests) + 1
          /\ Len(t3'.requests) <= 3
          /\ t3'.requests = SubSeq(RequestOrder, 1, Len(t3'.requests))
          /\ t3.n_clicks > 0 /\ t3.latitude # None /\ t3.longitude # None
          /\ Len(t3.requests) >= 1
                => t3.gridpoint[1] # None /\ t3.gridpoint[2] # None /\ t3.gridpoint[3] # None
          /\ Len(t3.requests) >= 2 => t3.forecast_fetched]_vars

\* All three requests were made.
C27_Witness ==
    /\ t3.requests = RequestOrder
    /\ t3.n_clicks > 0

(***************************************************************************)
(* Properties of the efficiency metrics.                                   *)
(***************************************************************************)
\* The quotient q is the number a / b.
IsQuotient(q, a, b) == q.den # 0 /\ b # 0 /\ q.num * b = a * q.den

Negative(q) == (q.num < 0 /\ q.den > 0) \/ (q.num > 0 /\ q.den < 0)

\* C24: for every efficiency record, Total_Water_Cost = Water_Usage x
\* Cost_per_Gallon, Gross_Revenue = Yield x 2.0, EWUE = 100 x (Gross_Revenue -
\* Total_Water_Cost) / Water_Usage and IWUE = 100 x (Yield - 2.0) /
\* Water_Usage; with positive Water_Usage, IWUE is negative exactly when
\* Yield < 2.0 and EWUE exactly when Gross_Revenue < Total_Water_Cost.
C24_EfficiencyMetrics ==
    ef.pc = "done"
    => \A i \in DOMAIN ef.data :
          LET r == ef.data[i] IN
          /\ r.Total_Water_Cost = r.Water_Usage * r.Cost_per_Gallon
          /\ r.Gross_Revenue = 2 * r.Yield
          /\ IsQuotient(r.EWUE, 100 * (r.Gross_Revenue - r.Total_Water_Cost), r.Water_Usage)
          /\ IsQuotient(r.IWUE, 100 * (r.Yield - 20), r.Water_Usage)
          /\ r.Water_Usage > 0
                => /\ Negative(r.IWUE) <=> r.Yield < 20
                   /\ Negative(r.EWUE) <=> r.Gross_Revenue < r.Total_Water_Cost

\* A record with yield 1.5 (IWUE negative) and one with yield 2.5, 500
\* gallons at 0.05 USD (IWUE positive, water cost 25 USD above the revenue
\* of 5 USD).
C24_Witness ==
    /\ ef.pc = "done"
    /\ Len(ef.data) = 2
    /\ ef.data[1].Yield = 15 /\ Negative(ef.data[1].IWUE)
    /\ ef.data[2].Yield = 25 /\ ~Negative(ef.data[2].IWUE)
    /\ ef.data[2].Water_Usage = 50 /\ ef.data[2].Cost_per_Gallon = 5
    /\ ef.data[2].Total_Water_Cost = 250 /\ ef.data[2].Gross_Revenue = 50
    /\ Negative(ef.data[2].EWUE)
====
